---- MODULE Spec2Model ----
(***************************************************************************)
(* Sea Bite Express: the server-side stock ledger (Backend/routes, on      *)
(* PostgreSQL through pg's pool) and the client-side offline write path    *)
(* (Frontend/script.js, on IndexedDB).                                     *)
(*                                                                         *)
(* Server.  Every request handler is an async function; each              *)
(* `await client.query(...)` is one step of the request's transaction.     *)
(* The pool is used with PostgreSQL's default isolation level, READ        *)
(* COMMITTED: a statement sees the rows committed when it starts plus the  *)
(* transaction's own writes, writes stay private until COMMIT, and row     *)
(* locks (FOR UPDATE, the FOR NO KEY UPDATE of an UPDATE, the FOR KEY      *)
(* SHARE of a foreign-key check) are held until COMMIT or ROLLBACK.        *)
(* A statement that can wait for a row lock, or that reads or changes what  *)
(* other requests can see, is a step of its own.  The statements that      *)
(* follow it without waiting and touch only the transaction's private      *)
(* writes are taken in the same step as the next such statement: an early  *)
(* ROLLBACK with the statement that decided it, the INSERTs of a loop      *)
(* iteration with its UPDATE, the last writes with COMMIT.                 *)
(*                                                                         *)
(* Quantities are integers (the NUMERIC columns hold what the handlers     *)
(* compute; fractional quantities are outside this model).                 *)
(***************************************************************************)
EXTENDS Integers, Sequences, FiniteSets, TLC

\* ---------------------------------------------------------------------
\* Bounds
\* ---------------------------------------------------------------------
MaxIds == 2           \* ids a request can name; SERIAL values a table hands out
MaxQty == 1           \* largest quantity of a move, of a sale item, of an initial stock
MaxReq == 3           \* requests the server receives in one behaviour
MaxTx == 2            \* requests in flight at the same time
MaxQueued == 3        \* keys the queue store's autoIncrement hands out in one behaviour
MaxForms == 2         \* writes whose input passes validation in one behaviour of SpecCache

ProductIds == 1..MaxIds
SaleIds == 1..MaxIds
Tx == 1..MaxTx
Names == {"Ice"}

\* ---------------------------------------------------------------------
\* State
\* ---------------------------------------------------------------------
VARIABLES
  products,     \* table products: id -> [name, qty, updated_at]
  movements,    \* table stock_movements, rows in commit order
  sales,        \* table sales: id -> [amount, description]
  sale_items,   \* table sale_items, rows in commit order
  expenses,     \* table expenses: id -> [amount, description, created_at]
  seqProduct,   \* products_id_seq: last value handed out
  seqSale,      \* sales_id_seq: last value handed out
  nreq,         \* requests received so far; NOW() of the next transaction
  tx,           \* the requests in flight: position, locals, locks, private writes
  resp,         \* the response sent last: [kind, status, error]
  online,       \* navigator.onLine
  queue,        \* IndexedDB store "queue": qid -> the stored action
  nextQid,      \* the store's autoIncrement key generator: the next qid
  writer,       \* the write handler running: position, handler, outcome of the attempt
  drain,        \* the flushQueue calls running, one per caller: position, items, index
  wire,         \* the fetch calls of api() that have not settled yet
  disturbed,    \* history: the running flushQueue calls another call removed an entry under
  view,         \* the in-memory lists `products`, `sales`, `expenses`: id -> record
  cache,        \* IndexedDB stores "products", "sales", "expenses" (keyPath "id")
  shown,        \* the text of the alert a write handler showed last, "" before the first
  made,         \* history: the handlers whose input passed validation, in order
  posted        \* history: rows POST /expenses inserted for requests of this page

server == <<products, movements, sales, sale_items, expenses, seqProduct, seqSale, nreq, tx, resp>>
client == <<online, queue, nextQid, writer, drain, wire, disturbed>>
stores == <<view, cache, shown, made, posted>>
vars == <<server, client, stores>>
db == <<products, movements, sales, sale_items, expenses>>

EmptyFn == [x \in {} |-> 0]
NoLocks == [p \in ProductIds |-> ""]

IdleTx ==
  [kind |-> "none", pc |-> "idle", id |-> 0, type |-> "", qty |-> 0,
   amount |-> 0, description |-> "", items |-> <<>>, i |-> 0, now |-> 0,
   cur |-> 0, rows |-> <<>>, lk |-> NoLocks, wq |-> EmptyFn, wMoves |-> <<>>]

Free(t) == tx[t].pc = "idle"

\* a request is taken by the lowest free connection (they are interchangeable)
CanStart(t) ==
  /\ nreq < MaxReq
  /\ Free(t)
  /\ \A u \in Tx : u < t => ~Free(u)

Begin(k) == [IdleTx EXCEPT !.kind = k, !.now = nreq + 1]

\* res.status(s).json(...) and client.release()
Respond(t, k, s, e) ==
  /\ tx' = [tx EXCEPT ![t] = IdleTx]
  /\ resp' = [kind |-> k, status |-> s, error |-> e]

\* ---------------------------------------------------------------------
\* Row locks on products
\* ---------------------------------------------------------------------
Conflict(want, held) ==
  \/ want = "KS" /\ held = "FU"
  \/ want = "NKU" /\ held \in {"NKU", "FU"}
  \/ want = "FU" /\ held \in {"KS", "NKU", "FU"}

CanLock(t, p, mode) == \A u \in Tx \ {t} : ~Conflict(mode, tx[u].lk[p])

Rank(m) == CASE m = "" -> 0 [] m = "KS" -> 1 [] m = "NKU" -> 2 [] m = "FU" -> 3

Stronger(a, b) == IF Rank(a) >= Rank(b) THEN a ELSE b

Lock(lk, p, mode) == [lk EXCEPT ![p] = Stronger(mode, @)]

Movement(p, ty, q, s) == [product_id |-> p, type |-> ty, qty |-> q, sale |-> s]

\* ---------------------------------------------------------------------
\* POST /products/:id/move
\* ---------------------------------------------------------------------
MoveTypes == {"IN", "OUT"}

\* a variant that adds whatever the type is
MoveNewQtyAlwaysAdds(currentQty, type, qty) == currentQty + qty

MoveNewQty(currentQty, type, qty) ==
  IF type = "IN" THEN currentQty + qty ELSE currentQty - qty

\* a plain SELECT takes no row lock
MoveSelectNoLock == ""

\* the row lock of SELECT id, qty FROM products WHERE id=$1 FOR UPDATE
MoveSelectLock == "FU"

\* a variant of the check that lets the quantity go one below zero
InsufficientBelowMinusOne(newQty) == newQty < -1

\* if (newQty < 0)
Insufficient(newQty) == newQty < 0

\* body checks, BEGIN, SELECT id, qty FROM products WHERE id=$1 FOR UPDATE, the two checks
MoveSelectDb(t, id, type, qty) ==
  /\ CanStart(t)
  /\ nreq' = nreq + 1
  /\ IF qty <= 0
       THEN Respond(t, "move", 400, "qty must be greater than 0")
       ELSE IF id \notin DOMAIN products
         THEN Respond(t, "move", 404, "Product not found")
         ELSE /\ CanLock(t, id, MoveSelectLock)
              /\ IF Insufficient(MoveNewQty(products[id].qty, type, qty))
                   THEN Respond(t, "move", 400, "Insufficient stock")
                   ELSE /\ tx' = [tx EXCEPT ![t] =
                             [Begin("move") EXCEPT !.pc = "m_write", !.id = id, !.type = type,
                                !.qty = qty, !.cur = products[id].qty,
                                !.lk = Lock(NoLocks, id, MoveSelectLock)]]
                        /\ UNCHANGED resp
  /\ UNCHANGED <<db, seqProduct, seqSale>>

\* the route, the client left alone
MoveSelect(t, id, type, qty) == MoveSelectDb(t, id, type, qty) /\ UNCHANGED <<client, stores>>

\* INSERT INTO stock_movements; UPDATE products SET qty=$1 (newQty); COMMIT
\* (the INSERT of a row whose product is gone fails on the foreign key: catch, ROLLBACK, 500)
MoveWriteDb(t) ==
  /\ tx[t].pc = "m_write"
  /\ IF tx[t].id \notin DOMAIN products
       THEN /\ Respond(t, "move", 500, "violates foreign key constraint")
            /\ UNCHANGED <<products, movements>>
       ELSE /\ CanLock(t, tx[t].id, "NKU")
            /\ movements' = Append(movements, Movement(tx[t].id, tx[t].type, tx[t].qty, 0))
            /\ products' = [products EXCEPT
                    ![tx[t].id].qty = MoveNewQty(tx[t].cur, tx[t].type, tx[t].qty),
                    ![tx[t].id].updated_at = tx[t].now]
            /\ Respond(t, "move", 200, "")
  /\ UNCHANGED <<sales, sale_items, expenses, seqProduct, seqSale, nreq>>

MoveWrite(t) == MoveWriteDb(t) /\ UNCHANGED <<client, stores>>

\* ---------------------------------------------------------------------
\* routes/inventory.js (SQLite): POST /products/:id/move.  No transaction: each
\* statement is its own, and other requests run at every await.
\* ---------------------------------------------------------------------
\* await get(SELECT * FROM products WHERE id = ?); the 404; the body checks
InventoryMoveGet(t, id, type, qty) ==
  /\ CanStart(t)
  /\ nreq' = nreq + 1
  /\ IF id \notin DOMAIN products
       THEN Respond(t, "inventory_move", 404, "Product not found")
       ELSE IF qty <= 0
         THEN Respond(t, "inventory_move", 400, "qty must be > 0")
         ELSE IF type = "OUT" /\ products[id].qty - qty < 0
           THEN Respond(t, "inventory_move", 400, "Insufficient stock")
           ELSE /\ tx' = [tx EXCEPT ![t] =
                     [Begin("inventory_move") EXCEPT !.pc = "i_insert", !.id = id,
                        !.type = type, !.qty = qty, !.cur = products[id].qty]]
                /\ UNCHANGED resp
  /\ UNCHANGED <<db, seqProduct, seqSale>>
  /\ UNCHANGED <<client, stores>>

\* await run(INSERT INTO stock_movements ...)
InventoryMoveInsert(t) ==
  /\ tx[t].pc = "i_insert"
  /\ movements' = Append(movements, Movement(tx[t].id, tx[t].type, tx[t].qty, 0))
  /\ tx' = [tx EXCEPT ![t].pc = "i_update"]
  /\ UNCHANGED <<products, sales, sale_items, expenses, seqProduct, seqSale, nreq, resp>>
  /\ UNCHANGED <<client, stores>>

\* newQty from the product read at the start; await run(UPDATE products SET qty=?);
\* the SELECT of the updated row; res.json
InventoryMoveUpdate(t) ==
  /\ tx[t].pc = "i_update"
  /\ products' = [p \in DOMAIN products |->
                    IF p = tx[t].id
                      THEN [products[p] EXCEPT
                              !.qty = MoveNewQty(tx[t].cur, tx[t].type, tx[t].qty),
                              !.updated_at = tx[t].now]
                      ELSE products[p]]
  /\ Respond(t, "inventory_move", 200, "")
  /\ UNCHANGED <<movements, sales, sale_items, expenses, seqProduct, seqSale, nreq>>
  /\ UNCHANGED <<client, stores>>

\* ---------------------------------------------------------------------
\* POST /products, PUT /products/:id, DELETE /products/:id
\* ---------------------------------------------------------------------
\* a variant that inserts the movement whatever initial_qty is
InitialMovementAlways(id, initial_qty) == <<Movement(id, "IN", initial_qty, 0)>>

\* initial_qty absent is toNumber(undefined, 0) = 0
InitialMovement(id, initial_qty) ==
  IF initial_qty > 0 THEN <<Movement(id, "IN", initial_qty, 0)>> ELSE <<>>

\* POST /products: body checks; BEGIN; INSERT product; INSERT movement; COMMIT
ProductCreateDb(t, name, initial_qty) ==
  /\ CanStart(t)
  /\ nreq' = nreq + 1
  /\ IF name = "" \/ initial_qty < 0
       THEN /\ Respond(t, "product_create", 400,
                    IF name = "" THEN "Product name is required"
                    ELSE "initial_qty must be 0 or more")
            /\ UNCHANGED <<products, movements, seqProduct>>
       ELSE /\ seqProduct < MaxIds
            /\ seqProduct' = seqProduct + 1
            /\ products' = [p \in (DOMAIN products) \cup {seqProduct + 1} |->
                   IF p = seqProduct + 1
                     THEN [name |-> name, qty |-> initial_qty, updated_at |-> nreq + 1]
                     ELSE products[p]]
            /\ movements' = movements \o InitialMovement(seqProduct + 1, initial_qty)
            /\ Respond(t, "product_create", 200, "")
  /\ UNCHANGED <<sales, sale_items, expenses, seqSale>>

ProductCreate(t, name, initial_qty) ==
  ProductCreateDb(t, name, initial_qty) /\ UNCHANGED <<client, stores>>

\* a variant of the UPDATE that also sets qty from the request body
ProductUpdateRowWithQty(row, name, bodyQty, now) ==
  [row EXCEPT !.name = name, !.qty = bodyQty, !.updated_at = now]

\* UPDATE products SET name=$1, sku=$2, unit=$3, reorder_level=$4, updated_at=NOW()
ProductUpdateRow(row, name, bodyQty, now) ==
  [row EXCEPT !.name = name, !.updated_at = now]

\* PUT /products/:id: one UPDATE of name, sku, unit, reorder_level, updated_at;
\* bodyQty is a qty field in the request body, which the handler never reads
ProductUpdate(t, id, name, bodyQty) ==
  /\ CanStart(t)
  /\ nreq' = nreq + 1
  /\ IF name = ""
       THEN /\ Respond(t, "product_update", 400, "Product name is required")
            /\ UNCHANGED products
       ELSE IF id \notin DOMAIN products
         THEN /\ Respond(t, "product_update", 404, "Product not found")
              /\ UNCHANGED products
         ELSE /\ CanLock(t, id, "NKU")
              /\ products' = [products EXCEPT
                                ![id] = ProductUpdateRow(@, name, bodyQty, nreq + 1)]
              /\ Respond(t, "product_update", 200, "")
  /\ UNCHANGED <<movements, sales, sale_items, expenses, seqProduct, seqSale>>
  /\ UNCHANGED <<client, stores>>

\* DELETE /products/:id: SELECT id FROM products WHERE id=$1
ProductDeleteSelect(t, id) ==
  /\ CanStart(t)
  /\ nreq' = nreq + 1
  /\ IF id \notin DOMAIN products
       THEN Respond(t, "product_delete", 404, "Product not found")
       ELSE /\ tx' = [tx EXCEPT ![t] = [Begin("product_delete") EXCEPT !.pc = "pd_delete", !.id = id]]
            /\ UNCHANGED resp
  /\ UNCHANGED <<db, seqProduct, seqSale>>
  /\ UNCHANGED <<client, stores>>

\* a variant of the schema without the foreign key of sale_items.product_id
ReferencedNever(id) == FALSE

\* sale_items.product_id INT NOT NULL REFERENCES products(id)
Referenced(id) == \E k \in 1..Len(sale_items) : sale_items[k].product_id = id

\* a variant of the cascade that empties stock_movements
CascadeEverything(ms, id) == <<>>

\* stock_movements.product_id REFERENCES products(id) ON DELETE CASCADE
Cascade(ms, id) == SelectSeq(ms, LAMBDA m : m.product_id # id)

\* DELETE FROM products WHERE id=$1 (its own transaction): waits for every lock on the
\* row, fails on the sale_items foreign key, cascades to stock_movements
ProductDeleteDelete(t) ==
  /\ tx[t].pc = "pd_delete"
  /\ IF tx[t].id \notin DOMAIN products
       THEN /\ Respond(t, "product_delete", 200, "")
            /\ UNCHANGED <<products, movements>>
       ELSE /\ CanLock(t, tx[t].id, "FU")
            /\ IF Referenced(tx[t].id)
                 THEN /\ Respond(t, "product_delete", 500, "violates foreign key constraint")
                      /\ UNCHANGED <<products, movements>>
                 ELSE /\ products' = [p \in (DOMAIN products) \ {tx[t].id} |-> products[p]]
                      /\ movements' = Cascade(movements, tx[t].id)
                      /\ Respond(t, "product_delete", 200, "")
  /\ UNCHANGED <<sales, sale_items, expenses, seqProduct, seqSale, nreq>>
  /\ UNCHANGED <<client, stores>>

\* ---------------------------------------------------------------------
\* POST /sales
\* ---------------------------------------------------------------------
Item(p, q) == [product_id |-> p, qty_used |-> q]

ItemSet == {Item(p, q) : p \in ProductIds, q \in 1..MaxQty}

\* the items lists of a request body: no item, one item, two items
ItemLists == {<<>>} \cup {<<a>> : a \in ItemSet} \cup {<<a, b>> : a \in ItemSet, b \in ItemSet}

\* request bodies the body checks of POST /sales reject
BadSaleBodies ==
  {[amount |-> 0, description |-> "Lunch combo", items |-> <<>>],
   [amount |-> 5000, description |-> "", items |-> <<>>],
   [amount |-> 5000, description |-> "Lunch combo", items |-> <<Item(1, 0)>>]}

okAmount(n) == n > 0
okQty(n) == n > 0

InFlight(k) == Cardinality({u \in Tx : tx[u].kind = k})

\* "Validate + lock products", one iteration for the request r of connection t:
\* SELECT ... FOR UPDATE and the two throws (caught: ROLLBACK, 400)
SaleLockItem(t, r) ==
  LET pid == r.items[r.i].product_id
      qty == r.items[r.i].qty_used
  IN IF pid \notin DOMAIN products
       THEN Respond(t, "sale_create", 400, "Product not found")
       ELSE /\ CanLock(t, pid, "FU")
            /\ IF products[pid].qty - qty < 0
                 THEN Respond(t, "sale_create", 400, "Insufficient stock")
                 ELSE /\ tx' = [tx EXCEPT ![t] =
                           [r EXCEPT !.lk = Lock(@, pid, "FU"),
                                     !.i = @ + 1,
                                     !.pc = IF r.i = Len(r.items) THEN "s_write" ELSE "s_lock"]]
                      /\ UNCHANGED resp

\* body checks, BEGIN and the first iteration of the locking loop
SaleStart(t, amount, description, items) ==
  /\ CanStart(t)
  /\ seqSale + InFlight("sale_create") < MaxIds
  /\ nreq' = nreq + 1
  /\ LET r == [Begin("sale_create") EXCEPT !.pc = "s_lock", !.amount = amount,
                 !.description = description, !.items = items, !.i = 1]
     IN IF ~okAmount(amount) \/ description = ""
          THEN Respond(t, "sale_create", 400, "Valid amount (>0) and description required")
          ELSE IF \E k \in 1..Len(items) : ~okQty(items[k].qty_used)
          THEN Respond(t, "sale_create", 400, "qty_used must be > 0 in items")
          ELSE IF items = <<>>
            THEN /\ tx' = [tx EXCEPT ![t] = [r EXCEPT !.pc = "s_write"]]
                 /\ UNCHANGED resp
            ELSE SaleLockItem(t, r)
  /\ UNCHANGED <<db, seqProduct, seqSale>>
  /\ UNCHANGED <<client, stores>>

\* the later iterations of the locking loop
SaleLock(t) ==
  /\ tx[t].pc = "s_lock"
  /\ SaleLockItem(t, tx[t])
  /\ UNCHANGED <<db, seqProduct, seqSale, nreq>>
  /\ UNCHANGED <<client, stores>>

\* a variant of the second loop that stops after the first item
SaleDecrementFirstOnly(prods, items, now) ==
  IF items = <<>> THEN prods
  ELSE [prods EXCEPT ![Head(items).product_id].qty = @ - Head(items).qty_used,
                     ![Head(items).product_id].updated_at = now]

\* the second loop over items: UPDATE products SET qty = qty - $1, updated_at = NOW()
RECURSIVE SaleDecrement(_, _, _)
SaleDecrement(prods, items, now) ==
  IF items = <<>> THEN prods
  ELSE SaleDecrement(
         [prods EXCEPT ![Head(items).product_id].qty = @ - Head(items).qty_used,
                       ![Head(items).product_id].updated_at = now],
         Tail(items), now)

SaleItemRows(saleId, items) ==
  [k \in 1..Len(items) |->
     [sale_id |-> saleId, product_id |-> items[k].product_id, qty_used |-> items[k].qty_used]]

SaleOutMovements(saleId, items) ==
  [k \in 1..Len(items) |-> Movement(items[k].product_id, "OUT", items[k].qty_used, saleId)]

\* INSERT INTO sales; per item INSERT sale_items, INSERT movement, UPDATE products; COMMIT
SaleWrite(t) ==
  /\ tx[t].pc = "s_write"
  /\ seqSale' = seqSale + 1
  /\ sales' = [s \in (DOMAIN sales) \cup {seqSale + 1} |->
                 IF s = seqSale + 1
                   THEN [amount |-> tx[t].amount, description |-> tx[t].description]
                   ELSE sales[s]]
  /\ sale_items' = sale_items \o SaleItemRows(seqSale + 1, tx[t].items)
  /\ movements' = movements \o SaleOutMovements(seqSale + 1, tx[t].items)
  /\ products' = SaleDecrement(products, tx[t].items, tx[t].now)
  /\ Respond(t, "sale_create", 200, "")
  /\ UNCHANGED <<expenses, seqProduct, nreq>>
  /\ UNCHANGED <<client, stores>>

\* ---------------------------------------------------------------------
\* PUT /sales/:id
\* ---------------------------------------------------------------------
\* a variant of the UPDATE without its WHERE clause
SaleUpdateRowsNoWhere(id, amount, description) ==
  [s \in DOMAIN sales |-> [amount |-> amount, description |-> description]]

\* UPDATE sales SET amount=$1, description=$2 WHERE id=$3
SaleUpdateRows(id, amount, description) ==
  [sales EXCEPT ![id] = [amount |-> amount, description |-> description]]

SaleUpdate(t, id, amount, description) ==
  /\ CanStart(t)
  /\ nreq' = nreq + 1
  /\ IF ~okAmount(amount) \/ description = ""
       THEN /\ Respond(t, "sale_update", 400, "Valid amount and description required")
            /\ UNCHANGED sales
       ELSE IF id \notin DOMAIN sales
         THEN /\ Respond(t, "sale_update", 404, "Sale not found")
              /\ UNCHANGED sales
         ELSE /\ sales' = SaleUpdateRows(id, amount, description)
              /\ Respond(t, "sale_update", 200, "")
  /\ UNCHANGED <<products, movements, sale_items, expenses, seqProduct, seqSale>>
  /\ UNCHANGED <<client, stores>>

\* ---------------------------------------------------------------------
\* DELETE /sales/:id
\* ---------------------------------------------------------------------
\* a variant of the existence check that never throws
SaleMissingNever(id) == FALSE

\* if (!sale.rows[0]) throw new Error("Sale not found")
SaleMissing(id) == id \notin DOMAIN sales

\* BEGIN; SELECT id FROM sales WHERE id=$1 (no lock); throw "Sale not found"
SaleDeleteSelect(t, id) ==
  /\ CanStart(t)
  /\ nreq' = nreq + 1
  /\ IF SaleMissing(id)
       THEN Respond(t, "sale_delete", 400, "Sale not found")
       ELSE /\ tx' = [tx EXCEPT ![t] = [Begin("sale_delete") EXCEPT !.pc = "d_items", !.id = id]]
            /\ UNCHANGED resp
  /\ UNCHANGED <<db, seqProduct, seqSale>>
  /\ UNCHANGED <<client, stores>>

ItemsOfSale(id) == SelectSeq(sale_items, LAMBDA r : r.sale_id = id)

\* SELECT product_id, qty_used FROM sale_items WHERE sale_id=$1
SaleDeleteItems(t) ==
  /\ tx[t].pc = "d_items"
  /\ tx' = [tx EXCEPT ![t].rows = ItemsOfSale(tx[t].id),
                      ![t].i = 1,
                      ![t].pc = IF ItemsOfSale(tx[t].id) = <<>> THEN "d_delete" ELSE "d_revert"]
  /\ UNCHANGED <<db, seqProduct, seqSale, nreq, resp>>
  /\ UNCHANGED <<client, stores>>

\* the quantity a statement of t reads in row p: its own write, else the committed row
RowQty(t, p) == IF p \in DOMAIN tx[t].wq THEN tx[t].wq[p] ELSE products[p].qty

WriteQty(wq, p, q) == [x \in (DOMAIN wq) \cup {p} |-> IF x = p THEN q ELSE wq[x]]

\* "revert stock", one iteration: INSERT movement 'IN' (foreign key on the product),
\* UPDATE products SET qty = qty + $1
SaleDeleteRevert(t) ==
  /\ tx[t].pc = "d_revert"
  /\ LET pid == tx[t].rows[tx[t].i].product_id
         qty == tx[t].rows[tx[t].i].qty_used
     IN IF pid \notin DOMAIN products
          THEN Respond(t, "sale_delete", 400, "violates foreign key constraint")
          ELSE /\ CanLock(t, pid, "NKU")
               /\ tx' = [tx EXCEPT
                     ![t].lk = Lock(@, pid, "NKU"),
                     ![t].wMoves = Append(@, Movement(pid, "IN", qty, tx[t].id)),
                     ![t].wq = WriteQty(@, pid, RowQty(t, pid) + qty),
                     ![t].i = @ + 1,
                     ![t].pc = IF tx[t].i = Len(tx[t].rows) THEN "d_delete" ELSE "d_revert"]
               /\ UNCHANGED resp
  /\ UNCHANGED <<db, seqProduct, seqSale, nreq>>
  /\ UNCHANGED <<client, stores>>

\* a variant in which the product writes of t are lost
CommitProductsNone(t) == products

\* COMMIT makes the private product writes of t visible
CommitProducts(t) ==
  [p \in DOMAIN products |->
    IF p \in DOMAIN tx[t].wq
      THEN [products[p] EXCEPT !.qty = tx[t].wq[p], !.updated_at = tx[t].now]
      ELSE products[p]]

\* DELETE FROM sales WHERE id=$1 (cascades to sale_items); COMMIT
SaleDeleteDelete(t) ==
  /\ tx[t].pc = "d_delete"
  /\ products' = CommitProducts(t)
  /\ movements' = movements \o tx[t].wMoves
  /\ sales' = [s \in (DOMAIN sales) \ {tx[t].id} |-> sales[s]]
  /\ sale_items' = SelectSeq(sale_items, LAMBDA r : r.sale_id # tx[t].id)
  /\ Respond(t, "sale_delete", 200, "")
  /\ UNCHANGED <<expenses, seqProduct, seqSale, nreq>>
  /\ UNCHANGED <<client, stores>>

\* ---------------------------------------------------------------------
\* PostgreSQL's deadlock detector
\* ---------------------------------------------------------------------
\* the row lock the next statement of t asks for
Wanted(t) ==
  CASE tx[t].pc = "s_lock" ->
         [p |-> tx[t].items[tx[t].i].product_id, mode |-> "FU"]
    [] tx[t].pc = "d_revert" ->
         [p |-> tx[t].rows[tx[t].i].product_id, mode |-> "NKU"]
    [] tx[t].pc = "pd_delete" -> [p |-> tx[t].id, mode |-> "FU"]
    [] OTHER -> [p |-> 0, mode |-> ""]

Waits(t, u) ==
  /\ t # u
  /\ Wanted(t).p \in ProductIds
  /\ Conflict(Wanted(t).mode, tx[u].lk[Wanted(t).p])

RECURSIVE WaitClosure(_, _)
WaitClosure(S, n) ==
  IF n = 0 THEN S
  ELSE WaitClosure(S \cup {v \in Tx : \E u \in S : Waits(u, v)}, n - 1)

Deadlocked(t) == t \in WaitClosure({v \in Tx : Waits(t, v)}, MaxTx)

\* the statement of a deadlocked transaction fails ("deadlock detected"); the handler's
\* catch does ROLLBACK and answers 400
DeadlockAbort(t) ==
  /\ Deadlocked(t)
  /\ Respond(t, tx[t].kind, 400, "deadlock detected")
  /\ UNCHANGED <<db, seqProduct, seqSale, nreq>>
  /\ UNCHANGED <<client, stores>>

\* ---------------------------------------------------------------------
\* routes/finance.js: POST /expenses and GET /report.  Time is counted in hours from
\* 1 January 00:00 of the year of the requests, on the one clock of server and database.
\* ---------------------------------------------------------------------
\* the instant of the first request: 10 February, 13:00
FirstRequestAt == (31 + 9) * 24 + 13

\* NOW() and new Date() of the n-th request
Instant(n) == FirstRequestAt + n

\* the days of the year before the first of each month
DaysBefore == <<0, 31, 59, 90, 120, 151, 181, 212, 243, 273, 304, 334>>

\* String(period || "").toLowerCase()
toLowerCase(q) ==
  CASE q = "Daily" -> "daily"
    [] q = "WEEKLY" -> "weekly"
    [] OTHER -> q

\* one of the four periods, else "monthly"
parsePeriod(q) ==
  IF toLowerCase(q) \in {"daily", "weekly", "monthly", "yearly"} THEN toLowerCase(q) ELSE "monthly"

\* the start of the period that holds `now`
startISO(period, now) ==
  CASE period = "daily" -> now - (now % 24)
    [] period = "weekly" -> now - 7 * 24
    [] period = "monthly" ->
         LET day == now \div 24
             m == CHOOSE k \in 1..12 :
                    /\ DaysBefore[k] <= day
                    /\ \A j \in 1..12 : DaysBefore[j] <= day => j <= k
         IN DaysBefore[m] * 24
    [] period = "yearly" -> 0

\* a variant of the filter that leaves out the rows of the very instant
CreatedAfter(at, from) == at > from

\* WHERE created_at >= $1
CreatedSince(at, from) == at >= from

\* SELECT amount FROM <table> WHERE created_at >= $1: the rows, by id
RECURSIVE SelectAmounts(_, _)
SelectAmounts(table, from) ==
  IF DOMAIN table = {} THEN <<>>
  ELSE LET k == CHOOSE x \in DOMAIN table : \A y \in DOMAIN table : x <= y
           rest == SelectAmounts([y \in (DOMAIN table) \ {k} |-> table[y]], from)
       IN IF CreatedSince(table[k].created_at, from)
            THEN <<[amount |-> table[k].amount]>> \o rest
            ELSE rest

\* rows.reduce((sum, r) => sum + (Number(r.amount) || 0), 0)
RECURSIVE reduce(_, _)
reduce(rows, sum) ==
  IF rows = <<>> THEN sum ELSE reduce(Tail(rows), sum + Head(rows).amount)

\* GET /report?period=q up to its second await: parsePeriod, startISO, the SELECT on sales
ReportSales(t, q) ==
  /\ CanStart(t)
  /\ nreq' = nreq + 1
  /\ LET period == parsePeriod(q)
         from == startISO(period, Instant(nreq + 1))
     IN tx' = [tx EXCEPT ![t] = [Begin("report") EXCEPT !.pc = "r_expenses",
                                                         !.type = period,
                                                         !.cur = from,
                                                         !.rows = SelectAmounts(sales, from)]]
  /\ UNCHANGED <<db, seqProduct, seqSale, resp>>
  /\ UNCHANGED <<client, stores>>

\* the SELECT on expenses, the two sums, the profit, res.json
ReportExpenses(t) ==
  /\ tx[t].pc = "r_expenses"
  /\ LET e == SelectAmounts(expenses, tx[t].cur)
         totalSales == reduce(tx[t].rows, 0)
         totalExpenses == reduce(e, 0)
         profit == totalSales - totalExpenses
     IN resp' = [kind |-> "report", status |-> 200, error |-> "",
                 period |-> tx[t].type, from |-> tx[t].cur,
                 totals |-> [totalSales |-> totalSales,
                             totalExpenses |-> totalExpenses,
                             profit |-> profit]]
  /\ tx' = [tx EXCEPT ![t] = IdleTx]
  /\ UNCHANGED <<db, seqProduct, seqSale, nreq>>
  /\ UNCHANGED <<client, stores>>

\* POST /expenses: the 400, or INSERT INTO expenses (amount, description, created_at)
\* VALUES ($1, $2, NOW()) RETURNING ...; the table hands out the next id
ExpenseCreate(t, amount, description) ==
  /\ CanStart(t)
  /\ nreq' = nreq + 1
  /\ IF ~okAmount(amount) \/ description = ""
       THEN /\ Respond(t, "expense_create", 400, "Valid amount and description required")
            /\ UNCHANGED expenses
       ELSE /\ expenses' = [k \in (DOMAIN expenses) \cup {Cardinality(DOMAIN expenses) + 1} |->
                              IF k \in DOMAIN expenses
                                THEN expenses[k]
                                ELSE [amount |-> amount, description |-> description,
                                      created_at |-> Instant(nreq + 1)]]
            /\ Respond(t, "expense_create", 200, "")
  /\ UNCHANGED <<products, movements, sales, sale_items, seqProduct, seqSale>>
  /\ UNCHANGED <<client, stores>>

\* =====================================================================
\* Client (Frontend/script.js): the pending-action queue
\* =====================================================================
\* Every `await` of a handler is a point where the other handlers and the browser's
\* events run.  What the backend answers is not decided here: a fetch settles with a
\* 2xx response, with another status, or fails.

\* the write handlers that run here, one at a time: the user starts the next write
\* when the last one has returned
Handlers == {"addExpense", "deleteRecord"}

\* the callers of flushQueue: the "online" listener and the click on #syncBtn
Triggers == {"online", "syncBtn"}

\* an id as a template literal prints it into a path: a server id is a number, a
\* temporary id is `tmp-${Date.now()}`
IdText(k) == IF k < 0 THEN "tmp-" \o ToString(0 - k) ELSE ToString(k)

\* `/api/inventory/products/${productId}/move`
MovePath(k) == "/api/inventory/products/" \o IdText(k) \o "/move"

\* JSON.stringify of the body of a stock move, of a loss and of a new product
MoveBody(type, qty) == "{\"type\":\"" \o type \o "\",\"qty\":" \o ToString(qty) \o "}"

LossBody(qty) == "{\"qty\":" \o ToString(qty) \o "}"

ProductBody(name, initial_qty) ==
  "{\"name\":\"" \o name \o "\",\"initial_qty\":" \o ToString(initial_qty) \o "}"

NameBody(name) == "{\"name\":\"" \o name \o "\"}"

\* JSON.stringify of { amount, description } and of the items of a sale
AmountBody(amount, description) ==
  "{\"amount\":" \o ToString(amount) \o ",\"description\":\"" \o description \o "\"}"

ItemsBody(items) ==
  IF items = <<>> THEN "[]"
  ELSE "[{\"product_id\":" \o IdText(items[1].product_id) \o
       ",\"qty_used\":" \o ToString(items[1].qty_used) \o "}]"

\* pendingUsage as saveUsage leaves it: the rows with qty > 0
pendingUsage(in) ==
  IF in.qty > 0 THEN <<[product_id |-> in.id, qty_used |-> in.qty]>> ELSE <<>>

\* the action a handler hands to apiOrQueue for the input `in`: kind, path, method
\* and the JSON.stringify text of the body
ActionOf(h, in) ==
  CASE h = "addExpense" ->
         [kind |-> "expense_create", path |-> "/api/finance/expenses", method |-> "POST",
          body |-> AmountBody(in.amount, in.text)]
    [] h = "deleteRecord" ->
         [kind |-> "sale_delete", path |-> "/api/finance/sales/" \o IdText(in.id),
          method |-> "DELETE", body |-> ""]
    [] h = "addSale" ->
         [kind |-> "sale_create", path |-> "/api/finance/sales", method |-> "POST",
          body |-> AmountBody(in.amount, in.text) \o
                   ItemsBody(pendingUsage(in))]
    [] h = "editRecord" ->
         [kind |-> "expense_update", path |-> "/api/finance/expenses/" \o IdText(in.id),
          method |-> "PUT", body |-> AmountBody(in.amount, in.text)]
    [] h = "addProduct" ->
         [kind |-> "product_create", path |-> "/api/inventory/products", method |-> "POST",
          body |-> ProductBody(in.text, in.qty)]
    [] h = "editProduct" ->
         [kind |-> "product_update", path |-> "/api/inventory/products/" \o IdText(in.id),
          method |-> "PUT", body |-> NameBody(in.text)]
    [] h = "stockMove" ->
         [kind |-> "stock_move",
          path |-> MovePath(in.id),
          method |-> "POST", body |-> MoveBody(in.type, in.qty)]
    [] h = "recordLoss" ->
         [kind |-> "stock_loss",
          path |-> "/api/inventory/products/" \o IdText(in.id) \o "/loss",
          method |-> "POST", body |-> LossBody(in.qty)]

\* no action: the writer between two writes
NoAction == [kind |-> "", path |-> "", method |-> "", body |-> ""]

\* the input of the writes where the entity stores are not followed: the first row,
\* 1500, "Fuel"
FirstRow == [text |-> "Fuel", amount |-> 1500, qty |-> 1, type |-> "IN", id |-> 1]

IdleWriter == [pc |-> "idle", h |-> "", res |-> "none", a |-> NoAction]

IdleDrain == [pc |-> "idle", items |-> <<>>, i |-> 0, sent |-> <<>>, failed |-> FALSE]

\* how the fetch of a write settles: res.ok, !res.ok, or fetch throws
Outcomes == {"ok", "http", "network"}

\* fetch(url, {...options, headers}) of api(), called by `from`: a handler or a trigger
Request(from, a) == [from |-> from, path |-> a.path, method |-> a.method, body |-> a.body]

\* objectStore("queue").add({...action, ts}): the key generator gives the qid
queueAdd(store, qid, action) ==
  [k \in (DOMAIN store) \cup {qid} |->
     IF k = qid
       THEN [qid |-> qid, kind |-> action.kind, path |-> action.path,
             method |-> action.method, body |-> action.body]
       ELSE store[k]]

\* a variant of getAll that returns the records in descending key order
RECURSIVE idbGetAllDescending(_)
idbGetAllDescending(store) ==
  IF DOMAIN store = {} THEN <<>>
  ELSE LET k == CHOOSE x \in DOMAIN store : \A y \in DOMAIN store : x >= y
       IN <<store[k]>> \o idbGetAllDescending([y \in (DOMAIN store) \ {k} |-> store[y]])

\* objectStore(store).getAll(): the records in ascending key order
RECURSIVE idbGetAll(_)
idbGetAll(store) ==
  IF DOMAIN store = {} THEN <<>>
  ELSE LET k == CHOOSE x \in DOMAIN store : \A y \in DOMAIN store : x <= y
       IN <<store[k]>> \o idbGetAll([y \in (DOMAIN store) \ {k} |-> store[y]])

\* a variant of delete that empties the store, as clear() would
idbDeleteEverything(store, key) == EmptyFn

\* objectStore(store).delete(key)
idbDelete(store, key) == [k \in (DOMAIN store) \ {key} |-> store[k]]

\* a variant of apiOrQueue without the offline check
NeverKnownOffline == FALSE

\* if (!navigator.onLine) throw new Error("offline")
KnownOffline == ~online

\* handler h, after its validation and its optimistic change, calls apiOrQueue with
\* the action a: the offline throw, or the fetch of api()
WriteStart(h, a) ==
  /\ writer.pc = "idle"
  /\ nextQid <= MaxQueued
  /\ IF KnownOffline
       THEN /\ writer' = [pc |-> "enqueue", h |-> h, res |-> "offline", a |-> a]
            /\ UNCHANGED wire
       ELSE /\ writer' = [pc |-> "fetch", h |-> h, res |-> "none", a |-> a]
            /\ wire' = wire \cup {Request(h, a)}
  /\ UNCHANGED <<online, queue, nextQid, drain, disturbed>>
  /\ UNCHANGED server

\* a variant of apiOrQueue whose try block falls into the catch after a 2xx answer too
AfterFetchAlwaysCatch(outcome) == "enqueue"

\* try { ...; return { ok: true, data } } catch (e) { await queueAdd(action); ... }
AfterFetch(outcome) == IF outcome = "ok" THEN "return" ELSE "enqueue"

\* api(): the fetch settles; `return { ok: true, data }`, or api throws into the catch
WriteAnswer(outcome) ==
  /\ writer.pc = "fetch"
  /\ wire' = wire \ {Request(writer.h, writer.a)}
  /\ writer' = [writer EXCEPT !.res = outcome, !.pc = AfterFetch(outcome)]
  /\ UNCHANGED <<online, queue, nextQid, drain, disturbed>>
  /\ UNCHANGED server

\* catch (e) { await queueAdd(action); await setQueueUI(); return {ok: false, queued: true} }
WriteEnqueue ==
  /\ writer.pc = "enqueue"
  /\ queue' = queueAdd(queue, nextQid, writer.a)
  /\ nextQid' = nextQid + 1
  /\ writer' = [writer EXCEPT !.pc = "return"]
  /\ UNCHANGED <<online, drain, wire, disturbed>>
  /\ UNCHANGED stores
  /\ UNCHANGED server

\* the handler after apiOrQueue: if (navigator.onLine && !result.ok) { alert; loadAll }
WriteReturn ==
  /\ writer.pc = "return"
  /\ writer' = IF online /\ writer.res # "ok" THEN [writer EXCEPT !.pc = "load"] ELSE IdleWriter
  /\ UNCHANGED <<online, queue, nextQid, drain, wire, disturbed>>
  /\ UNCHANGED server

\* await loadAll()
WriteLoad ==
  /\ writer.pc = "load"
  /\ writer' = IdleWriter
  /\ UNCHANGED <<online, queue, nextQid, drain, wire, disturbed>>
  /\ UNCHANGED server

\* a variant of flushQueue without its first line
FlushBeginAnyway(d, on) ==
  IF drain[d].pc = "idle"
    THEN [drain EXCEPT ![d] = [IdleDrain EXCEPT !.pc = "read"]]
    ELSE drain

\* flushQueue up to its first await: if (!navigator.onLine) return; queueAll() is called
FlushBegin(d, on) ==
  IF on /\ drain[d].pc = "idle"
    THEN [drain EXCEPT ![d] = [IdleDrain EXCEPT !.pc = "read"]]
    ELSE drain

\* the browser goes online: the "online" listener calls flushQueue
GoOnline ==
  /\ ~online
  /\ online' = TRUE
  /\ drain' = FlushBegin("online", TRUE)
  /\ UNCHANGED <<queue, nextQid, writer, wire, disturbed>>
  /\ UNCHANGED stores
  /\ UNCHANGED server

GoOffline ==
  /\ online
  /\ online' = FALSE
  /\ UNCHANGED <<queue, nextQid, writer, drain, wire, disturbed>>
  /\ UNCHANGED stores
  /\ UNCHANGED server

\* click on #syncBtn
SyncClick ==
  /\ online
  /\ drain["syncBtn"].pc = "idle"
  /\ drain' = FlushBegin("syncBtn", online)
  /\ UNCHANGED <<online, queue, nextQid, writer, wire, disturbed>>
  /\ UNCHANGED stores
  /\ UNCHANGED server

\* click on #syncBtn while offline: flushQueue returns at its first line and the
\* listener's alert follows at once
SyncClickOffline ==
  /\ ~online
  /\ drain' = FlushBegin("syncBtn", online)
  /\ shown' = "Sync complete (or nothing to sync)."
  /\ UNCHANGED <<online, queue, nextQid, writer, wire, disturbed>>
  /\ UNCHANGED <<view, cache, made, posted>>
  /\ UNCHANGED server

\* the loop of flushQueue reaches item i: api(item.path, item.options)
FlushSend(r, d, i) ==
  [r EXCEPT !.pc = "wait", !.i = i, !.sent = Append(@, r.items[i])]

\* const items = await queueAll(); if (!items.length) return; the first api call
FlushRead(d) ==
  /\ drain[d].pc = "read"
  /\ LET items == idbGetAll(queue)
     IN IF items = <<>>
          THEN /\ drain' = [drain EXCEPT ![d] = IdleDrain]
               /\ UNCHANGED wire
          ELSE /\ drain' = [drain EXCEPT ![d] = FlushSend([@ EXCEPT !.items = items], d, 1)]
               /\ wire' = wire \cup {Request(d, items[1])}
  /\ disturbed' = disturbed \ {d}
  /\ UNCHANGED <<online, queue, nextQid, writer>>
  /\ UNCHANGED stores
  /\ UNCHANGED server

\* a variant of the loop whose catch does not leave it
AfterReplayNoBreak(ok) == "clear"

\* try { await api(...); await queueClearItem(item.qid) } catch { break }
AfterReplay(ok) == IF ok THEN "clear" ELSE "finish"

\* await api(...) settles: go on to queueClearItem, or catch { break }
FlushSettle(d, ok) ==
  /\ drain[d].pc = "wait"
  /\ wire' = wire \ {Request(d, drain[d].items[drain[d].i])}
  /\ drain' = [drain EXCEPT ![d].pc = AfterReplay(ok),
                            ![d].failed = ~ok]
  /\ UNCHANGED <<online, queue, nextQid, writer, disturbed>>

\* the same, the backend not followed
FlushAnswer(d, ok) == FlushSettle(d, ok) /\ UNCHANGED server

\* await queueClearItem(item.qid); the next turn of the loop, or its end
FlushClear(d) ==
  /\ drain[d].pc = "clear"
  /\ LET r == drain[d]
         qid == r.items[r.i].qid
     IN /\ queue' = idbDelete(queue, qid)
        /\ disturbed' = disturbed \cup
              {e \in Triggers \ {d} : /\ drain[e].pc \in {"wait", "clear", "finish"}
                                     /\ qid \in DOMAIN queue
                                     /\ \E j \in 1..Len(drain[e].items) : drain[e].items[j].qid = qid}
        /\ IF r.i < Len(r.items)
             THEN /\ drain' = [drain EXCEPT ![d] = FlushSend(r, d, r.i + 1)]
                  /\ wire' = wire \cup {Request(d, r.items[r.i + 1])}
             ELSE /\ drain' = [drain EXCEPT ![d].pc = "finish"]
                  /\ UNCHANGED wire
  /\ UNCHANGED <<online, nextQid, writer>>
  /\ UNCHANGED stores
  /\ UNCHANGED server

\* await setQueueUI(); await loadAll()
FlushFinish(d) ==
  /\ drain[d].pc = "finish"
  /\ drain' = [drain EXCEPT ![d] = IdleDrain]
  /\ disturbed' = disturbed \ {d}
  /\ UNCHANGED <<online, queue, nextQid, writer, wire>>
  /\ UNCHANGED server

\* =====================================================================
\* Client (Frontend/script.js): the entity stores and the write handlers' input
\* =====================================================================
\* The in-memory lists and the IndexedDB stores are maps from id to record.  A server
\* id is a positive number; the temporary id `tmp-${Date.now()}` is a string that no
\* server id equals, here a negative number, the next one after each accepted write.

\* the write handlers that validate input (editRecord: the expense branch)
Forms == {"addSale", "addExpense", "editRecord", "addProduct", "editProduct",
          "stockMove", "recordLoss"}

\* what the page holds after its first loadAll
Seed ==
  [products |-> (1 :> [name |-> "Ice", qty |-> MaxQty]),
   sales |-> (1 :> [amount |-> 5000, description |-> "Lunch combo"]),
   expenses |-> (1 :> [amount |-> 1500, description |-> "Fuel"])]

\* what the three GETs of a later loadAll answer: the rows the page loaded with, those
\* without the expense (deleted since), or those and one expense more (created since)
RemoteLists ==
  {Seed,
   [Seed EXCEPT !.expenses = EmptyFn],
   [Seed EXCEPT !.expenses = (1 :> [amount |-> 1500, description |-> "Fuel"]) @@
                             (2 :> [amount |-> 1500, description |-> "Fuel"])]}

\* what the user types or picks: description or name, amount, quantity, move type,
\* the row the button belongs to
Keys == ((0 - MaxForms)..2) \ {0}
Inputs == [text : {"", "Fuel"}, amount : {0, 1500}, qty : (0 - 1)..(MaxQty + 1),
           type : MoveTypes, id : Keys]

isValidAmount(n) == n > 0
isValidQty(n) == n > 0

\* products.find(x => Number(x.id) === Number(it.product_id)) finds a row: Number of a
\* "tmp-..." id is NaN, which equals nothing
UsageFinds(list, pid) == pid > 0 /\ pid \in DOMAIN list

\* the alert a handler returns with before any effect, "" if the input passes
Rejection(h, in) ==
  CASE h = "addSale" ->
         IF ~isValidAmount(in.amount) \/ in.text = ""
           THEN "Enter valid sale amount and description."
           ELSE IF \E k \in 1..Len(pendingUsage(in)) :
                     LET it == pendingUsage(in)[k]
                     IN /\ UsageFinds(view.products, it.product_id)
                        /\ view.products[it.product_id].qty - it.qty_used < 0
             THEN "Insufficient stock. Reduce qty used."
             ELSE ""
    [] h = "addExpense" ->
         IF ~isValidAmount(in.amount) \/ in.text = ""
           THEN "Enter valid expense amount and description."
           ELSE ""
    [] h = "editRecord" ->
         IF in.id \notin DOMAIN view.expenses THEN "Record not found."
         ELSE IF ~isValidAmount(in.amount) \/ in.text = "" THEN "Invalid inputs"
         ELSE ""
    [] h = "addProduct" ->
         IF in.text = "" THEN "Product name is required."
         ELSE IF in.qty < 0 THEN "Initial quantity must be 0 or more."
         ELSE ""
    [] h = "editProduct" ->
         IF in.id \notin DOMAIN view.products THEN "Product not found." ELSE ""
    [] h = "stockMove" ->
         IF in.id \notin DOMAIN view.products THEN "Product not found."
         ELSE IF ~isValidQty(in.qty) THEN "Quantity must be > 0"
         ELSE IF in.type = "OUT" /\ view.products[in.id].qty - in.qty < 0
           THEN "Insufficient stock."
         ELSE ""
    [] h = "recordLoss" ->
         IF in.id \notin DOMAIN view.products THEN "Product not found."
         ELSE IF ~isValidQty(in.qty) THEN "Quantity must be > 0"
         ELSE IF view.products[in.id].qty - in.qty < 0 THEN "Insufficient stock."
         ELSE ""

\* a variant of put that keeps the record a key already has, as add() would
idbPutKeepsFirst(store, key, value) ==
  [k \in (DOMAIN store) \cup {key} |-> IF k \in DOMAIN store THEN store[k] ELSE value]

\* list.unshift(record), or the assignment to the fields of a record of the list;
\* objectStore(store).put(value)
idbPut(store, key, value) ==
  [k \in (DOMAIN store) \cup {key} |-> IF k = key THEN value ELSE store[k]]

\* values.forEach(v => os.put(v))
idbPutMany(store, values) ==
  [k \in (DOMAIN store) \cup (DOMAIN values) |->
     IF k \in DOMAIN values THEN values[k] ELSE store[k]]

\* the temporary id of the next create
TempId == 0 - (Len(made) + 1)

\* the records a handler changes in memory, as [store, key, value] in the order of
\* the code; each is then put into the IndexedDB store of the same name
Optimistic(h, in) ==
  CASE h = "addSale" ->
         <<[store |-> "sales", key |-> TempId,
            value |-> [amount |-> in.amount, description |-> in.text]]>> \o
         (IF in.qty > 0 /\ UsageFinds(view.products, in.id)
            THEN <<[store |-> "products", key |-> in.id,
                    value |-> [view.products[in.id] EXCEPT !.qty = @ - in.qty]]>>
            ELSE <<>>)
    [] h = "addExpense" ->
         <<[store |-> "expenses", key |-> TempId,
            value |-> [amount |-> in.amount, description |-> in.text]]>>
    [] h = "editRecord" ->
         <<[store |-> "expenses", key |-> in.id,
            value |-> [amount |-> in.amount, description |-> in.text]]>>
    [] h = "addProduct" ->
         <<[store |-> "products", key |-> TempId,
            value |-> [name |-> in.text, qty |-> in.qty]]>>
    [] h = "editProduct" ->
         <<[store |-> "products", key |-> in.id,
            value |-> [view.products[in.id] EXCEPT !.name = in.text]]>>
    [] h = "stockMove" ->
         <<[store |-> "products", key |-> in.id,
            value |-> [view.products[in.id] EXCEPT
                         !.qty = IF in.type = "IN" THEN @ + in.qty ELSE @ - in.qty]]>>
    [] h = "recordLoss" ->
         <<[store |-> "products", key |-> in.id,
            value |-> [view.products[in.id] EXCEPT !.qty = @ - in.qty]]>>

RECURSIVE PutAll(_, _)
PutAll(lists, puts) ==
  IF puts = <<>> THEN lists
  ELSE LET w == Head(puts)
       IN PutAll([lists EXCEPT ![w.store] = idbPut(@, w.key, w.value)], Tail(puts))

\* the handler from its input to its call of apiOrQueue: the validation and its
\* alert, or the optimistic change (in memory, then idbPut) and apiOrQueue's first step
FormSubmit(h, in) ==
  /\ writer.pc = "idle"
  /\ Len(made) < MaxForms
  /\ IF Rejection(h, in) # ""
       THEN /\ shown' = Rejection(h, in)
            /\ UNCHANGED <<view, cache, made, posted>>
            /\ UNCHANGED <<client, server>>
       ELSE /\ WriteStart(h, ActionOf(h, in))
            /\ view' = PutAll(view, Optimistic(h, in))
            /\ cache' = PutAll(cache, Optimistic(h, in))
            /\ made' = Append(made, h)
            /\ UNCHANGED <<shown, posted>>

\* addSale up to its first await: the validation, the stock check of every row of
\* pendingUsage against the list, sales.unshift(saleTemp) and idbPut("sales", saleTemp);
\* the handler then waits for the put, holding the rows it iterates next
SaleBegin(in) ==
  /\ writer.pc = "idle"
  /\ Len(made) < MaxForms
  /\ nextQid <= MaxQueued
  /\ IF Rejection("addSale", in) # ""
       THEN /\ shown' = Rejection("addSale", in)
            /\ UNCHANGED <<view, cache, made, posted>>
            /\ UNCHANGED <<client, server>>
       ELSE /\ view' = PutAll(view, <<Head(Optimistic("addSale", in))>>)
            /\ cache' = PutAll(cache, <<Head(Optimistic("addSale", in))>>)
            /\ writer' = [pc |-> "items", h |-> "addSale", res |-> "none",
                          a |-> ActionOf("addSale", in), usage |-> pendingUsage(in)]
            /\ made' = Append(made, "addSale")
            /\ UNCHANGED <<online, queue, nextQid, drain, wire, disturbed>>
            /\ UNCHANGED <<shown, posted>>
            /\ UNCHANGED server

\* for (const it of pendingUsage) { p = products.find(...); if (p) { p.qty -= qty_used;
\* await idbPut("products", p) } }: the rows are taken off the list as it is now
RECURSIVE UsagePuts(_, _)
UsagePuts(list, usage) ==
  IF usage = <<>> THEN <<>>
  ELSE LET it == Head(usage)
       IN IF UsageFinds(list, it.product_id)
            THEN LET row == [list[it.product_id] EXCEPT !.qty = @ - it.qty_used]
                 IN <<[store |-> "products", key |-> it.product_id, value |-> row]>> \o
                    UsagePuts(idbPut(list, it.product_id, row), Tail(usage))
            ELSE UsagePuts(list, Tail(usage))

\* addSale after the put of the sale: the loop over pendingUsage, then apiOrQueue
SaleItems ==
  /\ writer.pc = "items"
  /\ view' = PutAll(view, UsagePuts(view.products, writer.usage))
  /\ cache' = PutAll(cache, UsagePuts(view.products, writer.usage))
  /\ IF KnownOffline
       THEN /\ writer' = [pc |-> "enqueue", h |-> "addSale", res |-> "offline", a |-> writer.a]
            /\ UNCHANGED wire
       ELSE /\ writer' = [pc |-> "fetch", h |-> "addSale", res |-> "none", a |-> writer.a]
            /\ wire' = wire \cup {Request("addSale", writer.a)}
  /\ UNCHANGED <<online, queue, nextQid, drain, disturbed>>
  /\ UNCHANGED <<shown, made, posted>>
  /\ UNCHANGED server

\* a click that runs handler h while addSale waits for its put, the device offline:
\* the validation and its alert, or the change of the list, idbPut, and apiOrQueue
\* that queues the action and returns
FormOverlap(h, in) ==
  /\ writer.pc = "items"
  /\ ~online
  /\ Len(made) < MaxForms
  /\ nextQid <= MaxQueued
  /\ IF Rejection(h, in) # ""
       THEN /\ shown' = Rejection(h, in)
            /\ UNCHANGED <<view, cache, made, posted>>
            /\ UNCHANGED <<client, server>>
       ELSE /\ view' = PutAll(view, Optimistic(h, in))
            /\ cache' = PutAll(cache, Optimistic(h, in))
            /\ queue' = queueAdd(queue, nextQid, ActionOf(h, in))
            /\ nextQid' = nextQid + 1
            /\ made' = Append(made, h)
            /\ UNCHANGED <<online, writer, drain, wire, disturbed>>
            /\ UNCHANGED <<shown, posted>>
            /\ UNCHANGED server

\* deleteRecord(id, "Sale") from the button of a listed sale, confirmed: the sale
\* leaves the list (compared as text) and the store, then apiOrQueue; the products
\* are not touched.  The button passes the id as text: it is the store's key of a
\* "tmp-..." record, and no key of a record the server numbered.
DeleteRecordSubmit(in) ==
  /\ writer.pc = "idle"
  /\ Len(made) < MaxForms
  /\ in.id \in DOMAIN view.sales
  /\ WriteStart("deleteRecord", ActionOf("deleteRecord", in))
  /\ view' = [view EXCEPT !.sales = idbDelete(@, in.id)]
  /\ cache' = [cache EXCEPT !.sales = IF in.id < 0 THEN idbDelete(@, in.id) ELSE @]
  /\ made' = Append(made, "deleteRecord")
  /\ UNCHANGED <<shown, posted>>

\* the fetch of the write settles; a 2xx answer to POST /expenses is an inserted row
FormAnswer(outcome) ==
  /\ WriteAnswer(outcome)
  /\ posted' = IF outcome = "ok" /\ writer.h = "addExpense" THEN posted + 1 ELSE posted
  /\ UNCHANGED <<view, cache, shown, made>>

\* alert(`Expense failed: ${result.error}`) and its like in the other handlers
FailureAlert(h) ==
  CASE h = "addSale" -> "Sale failed"
    [] h = "addExpense" -> "Expense failed"
    [] h = "editRecord" -> "Update failed"
    [] h = "addProduct" -> "Product create failed"
    [] h = "editProduct" -> "Product update failed"
    [] h = "stockMove" -> "Stock move failed"
    [] h = "recordLoss" -> "Loss record failed"
    [] OTHER -> "Delete failed"

\* if (navigator.onLine && !result.ok) { alert(...); ... }
FormReturn ==
  /\ WriteReturn
  /\ shown' = IF online /\ writer.res # "ok" THEN FailureAlert(writer.h) ELSE shown
  /\ UNCHANGED <<view, cache, made, posted>>

\* loadAll: online and the three GETs answered with `lists`, the lists replace the
\* in-memory ones and are put into the stores; otherwise the stores are read
loadAll(lists, answered) ==
  IF online /\ answered
    THEN [view |-> lists,
          cache |-> [products |-> idbPutMany(cache.products, lists.products),
                     sales |-> idbPutMany(cache.sales, lists.sales),
                     expenses |-> idbPutMany(cache.expenses, lists.expenses)]]
    ELSE [view |-> cache, cache |-> cache]

\* await loadAll() of a write handler
FormLoad(lists, answered) ==
  /\ WriteLoad
  /\ view' = loadAll(lists, answered).view
  /\ cache' = loadAll(lists, answered).cache
  /\ UNCHANGED <<shown, made, posted>>

\* the replay of a queued action settles; a 2xx answer to POST /expenses is an
\* inserted row
DrainAnswer(d, ok) ==
  /\ FlushAnswer(d, ok)
  /\ posted' = IF ok /\ drain[d].items[drain[d].i].kind = "expense_create"
                 THEN posted + 1 ELSE posted
  /\ UNCHANGED <<view, cache, shown, made>>

\* the end of flushQueue: await setQueueUI(); await loadAll()
DrainFinish(d, lists, answered) ==
  /\ FlushFinish(d)
  /\ view' = loadAll(lists, answered).view
  /\ cache' = loadAll(lists, answered).cache
  /\ UNCHANGED <<shown, made, posted>>

\* ---------------------------------------------------------------------
\* The replay of queued inventory actions against the backend: the request of a
\* drain reaches its route, and the route's answer settles the drain's await.

\* toNumber(v): Number(v) if finite, else the fallback 0; Number("tmp-...") is NaN
toNumber(text) ==
  IF \E n \in 0..(MaxIds + 1) : ToString(n) = text
    THEN CHOOSE n \in 0..(MaxIds + 1) : ToString(n) = text
    ELSE 0

\* the route takes the request: express.json() parses the body, req.params.id is the
\* path segment; the answer, when this step gives it, settles the await of the drain
ReplayArrives(d, t) ==
  /\ drain[d].pc = "wait"
  /\ \A u \in Tx : Free(u)
  /\ LET item == drain[d].items[drain[d].i]
     IN \/ /\ item.kind = "product_create"
           /\ \E name \in {"", "Fuel"}, q \in (0 - 1)..(MaxQty + 1) :
                /\ item.body = ProductBody(name, q)
                /\ ProductCreateDb(t, name, q)
        \/ /\ item.kind = "stock_move"
           /\ \E k \in Keys, type \in MoveTypes, qty \in (0 - 1)..(MaxQty + 1) :
                /\ item.path = MovePath(k)
                /\ item.body = MoveBody(type, qty)
                /\ MoveSelectDb(t, toNumber(IdText(k)), type, qty)
  /\ IF tx'[t].pc = "idle"
       THEN FlushSettle(d, resp'.status = 200)
       ELSE UNCHANGED client
  /\ UNCHANGED stores

\* the open transaction of the move commits and the answer settles the await
ReplayCommits(d, t) ==
  /\ drain[d].pc = "wait"
  /\ MoveWriteDb(t)
  /\ FlushSettle(d, resp'.status = 200)
  /\ UNCHANGED stores

\* POST /api/inventory/products/:id/loss: the router has no route of that path and
\* method and server.js mounts nothing after the two routers but the error handler,
\* so Express answers 404 and no statement runs
ReplayNotFound(d, t) ==
  /\ drain[d].pc = "wait"
  /\ drain[d].items[drain[d].i].kind = "stock_loss"
  /\ CanStart(t)
  /\ nreq' = nreq + 1
  /\ Respond(t, "not_found", 404, "")
  /\ UNCHANGED <<db, seqProduct, seqSale>>
  /\ FlushSettle(d, resp'.status = 200)
  /\ UNCHANGED stores

\* ---------------------------------------------------------------------
\* The database the server starts on: empty, as migrate.js creates it, or as an
\* earlier POST /products {name: "Ice", initial_qty: MaxQty} left it.
InitialProducts(n) ==
  [p \in 1..n |-> [name |-> "Ice", qty |-> MaxQty, updated_at |-> 0]]

InitialMovements(n) == [p \in 1..n |-> Movement(p, "IN", MaxQty, 0)]

InitServer ==
  /\ products = InitialProducts(seqProduct)
  /\ movements = InitialMovements(seqProduct)
  /\ sales = EmptyFn
  /\ sale_items = <<>>
  /\ expenses = EmptyFn
  /\ seqSale = 0
  /\ nreq = 0
  /\ tx = [t \in Tx |-> IdleTx]
  /\ resp = [kind |-> "none", status |-> 0, error |-> ""]

\* the page as it loads: nothing queued, no handler running
InitClient ==
  /\ queue = EmptyFn
  /\ nextQid = 1
  /\ writer = IdleWriter
  /\ drain = [d \in Triggers |-> IdleDrain]
  /\ wire = {}
  /\ disturbed = {}
  /\ view = Seed
  /\ cache = Seed
  /\ shown = ""
  /\ made = <<>>
  /\ posted = 0

Init ==
  /\ seqProduct \in {0, 1}
  /\ InitServer
  /\ online = TRUE
  /\ InitClient

InitQueue ==
  /\ seqProduct = 0
  /\ InitServer
  /\ online \in BOOLEAN
  /\ InitClient

Next ==
  \/ \E t \in Tx, id \in ProductIds, type \in MoveTypes, qty \in 0..MaxQty : MoveSelect(t, id, type, qty)
  \/ \E t \in Tx : MoveWrite(t)
  \/ \E t \in Tx, name \in Names \cup {""}, q \in -1..MaxQty : ProductCreate(t, name, q)
  \/ \E t \in Tx, id \in ProductIds, name \in Names \cup {""}, q \in {0, MaxQty} : ProductUpdate(t, id, name, q)
  \/ \E t \in Tx, id \in ProductIds : ProductDeleteSelect(t, id)
  \/ \E t \in Tx : ProductDeleteDelete(t)
  \/ \E t \in Tx, items \in ItemLists : SaleStart(t, 5000, "Lunch combo", items)
  \/ \E t \in Tx, b \in BadSaleBodies : SaleStart(t, b.amount, b.description, b.items)
  \/ \E t \in Tx : SaleLock(t)
  \/ \E t \in Tx : SaleWrite(t)
  \/ \E t \in Tx, id \in SaleIds, amount \in {0, 6000}, description \in {"", "Dinner"} :
        SaleUpdate(t, id, amount, description)
  \/ \E t \in Tx, id \in SaleIds : SaleDeleteSelect(t, id)
  \/ \E t \in Tx : SaleDeleteItems(t)
  \/ \E t \in Tx : SaleDeleteRevert(t)
  \/ \E t \in Tx : SaleDeleteDelete(t)
  \/ \E t \in Tx : DeadlockAbort(t)

Spec == Init /\ [][Next]_vars

\* the books a report is asked of: no rows, or sales and expenses made last year, in
\* January, on 1 February 00:00, a week before the first request to the hour, a day
\* before it, and on its day at 00:00; the amounts tell the rows apart in a sum
SalesBook ==
  (1 :> [amount |-> 1000, description |-> "Lunch combo", created_at |-> 0 - 1]) @@
  (2 :> [amount |-> 2000, description |-> "Lunch combo", created_at |-> 0]) @@
  (3 :> [amount |-> 4000, description |-> "Lunch combo", created_at |-> 31 * 24 - 1]) @@
  (4 :> [amount |-> 8000, description |-> "Lunch combo", created_at |-> 31 * 24]) @@
  (5 :> [amount |-> 16000, description |-> "Lunch combo", created_at |-> Instant(1) - 7 * 24]) @@
  (6 :> [amount |-> 32000, description |-> "Lunch combo", created_at |-> 40 * 24 - 1]) @@
  (7 :> [amount |-> 64000, description |-> "Lunch combo", created_at |-> 40 * 24])

ExpensesBook ==
  (1 :> [amount |-> 100, description |-> "Fuel", created_at |-> 0 - 1]) @@
  (2 :> [amount |-> 200, description |-> "Fuel", created_at |-> 31 * 24]) @@
  (3 :> [amount |-> 400, description |-> "Fuel", created_at |-> Instant(1) - 7 * 24]) @@
  (4 :> [amount |-> 800, description |-> "Fuel", created_at |-> 40 * 24])

InitReport ==
  /\ seqProduct = 0
  /\ products = EmptyFn
  /\ movements = <<>>
  /\ sales \in {EmptyFn, SalesBook}
  /\ sale_items = <<>>
  /\ expenses \in {EmptyFn, ExpensesBook}
  /\ seqSale = Cardinality(DOMAIN sales)
  /\ nreq = 0
  /\ tx = [t \in Tx |-> IdleTx]
  /\ resp = [kind |-> "none", status |-> 0, error |-> ""]
  /\ online = TRUE
  /\ InitClient

Periods == {"daily", "Daily", "weekly", "WEEKLY", "monthly", "yearly", "", "quarterly"}

NextReport ==
  \/ \E t \in Tx, q \in Periods : ReportSales(t, q)
  \/ \E t \in Tx : ReportExpenses(t)
  \/ \E t \in Tx, amount \in {0, 1500}, description \in {"", "Fuel"} :
        ExpenseCreate(t, amount, description)

SpecReport == InitReport /\ [][NextReport]_vars

\* the move route of routes/inventory.js alone, on a database with one product
InitInventory == Init /\ seqProduct = 1

NextInventory ==
  \/ \E t \in Tx, id \in ProductIds, type \in MoveTypes, qty \in 0..MaxQty :
        InventoryMoveGet(t, id, type, qty)
  \/ \E t \in Tx : InventoryMoveInsert(t)
  \/ \E t \in Tx : InventoryMoveUpdate(t)

SpecInventory == InitInventory /\ [][NextInventory]_vars

\* the queue side of the client alone: the entity stores are not followed
NextQueue ==
  \/ \E h \in Handlers : WriteStart(h, ActionOf(h, FirstRow)) /\ UNCHANGED stores
  \/ \E o \in Outcomes : WriteAnswer(o) /\ UNCHANGED stores
  \/ WriteEnqueue
  \/ WriteReturn /\ UNCHANGED stores
  \/ WriteLoad /\ UNCHANGED stores
  \/ GoOnline
  \/ GoOffline
  \/ SyncClick
  \/ \E d \in Triggers : FlushRead(d)
  \/ \E d \in Triggers, ok \in BOOLEAN : FlushAnswer(d, ok) /\ UNCHANGED stores
  \/ \E d \in Triggers : FlushClear(d)
  \/ \E d \in Triggers : FlushFinish(d) /\ UNCHANGED stores

SpecQueue == InitQueue /\ [][NextQueue]_vars

\* the write handlers with their input and the entity stores, while connectivity
\* stays as it is and no drain runs
NextForms ==
  \/ \E h \in Forms, in \in Inputs : FormSubmit(h, in)
  \/ \E o \in Outcomes : FormAnswer(o)
  \/ WriteEnqueue
  \/ FormReturn
  \/ \E lists \in RemoteLists, answered \in BOOLEAN : FormLoad(lists, answered)

SpecForms == InitQueue /\ [][NextForms]_vars

\* inventory writes made offline and their replay when the device comes online, up
\* to the end of the loop of flushQueue: the backend holds the rows the page shows
InitReplay ==
  /\ seqProduct = 1
  /\ products = InitialProducts(1)
  /\ movements = InitialMovements(1)
  /\ sales = (1 :> Seed.sales[1])
  /\ sale_items = <<>>
  /\ expenses = EmptyFn
  /\ seqSale = 1
  /\ nreq = 0
  /\ tx = [t \in Tx |-> IdleTx]
  /\ resp = [kind |-> "none", status |-> 0, error |-> ""]
  /\ online = FALSE
  /\ InitClient

NextReplay ==
  \/ \E h \in {"addProduct", "stockMove"}, in \in Inputs : ~online /\ FormSubmit(h, in)
  \/ WriteEnqueue
  \/ FormReturn
  \/ GoOnline
  \/ FlushRead("online")
  \/ \E t \in Tx : ReplayArrives("online", t)
  \/ \E t \in Tx : ReplayCommits("online", t)
  \/ FlushClear("online")

SpecReplay == InitReplay /\ [][NextReplay]_vars

\* stock moved and losses recorded offline, then replayed by the drain of "online"
NextLoss ==
  \/ \E h \in {"stockMove", "recordLoss"}, in \in Inputs : ~online /\ FormSubmit(h, in)
  \/ WriteEnqueue
  \/ FormReturn
  \/ GoOnline
  \/ FlushRead("online")
  \/ \E t \in Tx : ReplayArrives("online", t)
  \/ \E t \in Tx : ReplayCommits("online", t)
  \/ \E t \in Tx : ReplayNotFound("online", t)
  \/ FlushClear("online")

SpecLoss == InitReplay /\ [][NextLoss]_vars

\* the page used while the device stays offline: every write is queued, a click on
\* #syncBtn finds flushQueue returning at once
InitOffline == InitQueue /\ ~online

\* the handlers followed there: two creates and a change of a row
OfflineForms == {"addExpense", "addProduct", "stockMove"}

NextOffline ==
  \/ \E h \in OfflineForms, in \in Inputs : FormSubmit(h, in)
  \/ WriteEnqueue
  \/ FormReturn
  \/ SyncClickOffline

SpecOffline == InitOffline /\ [][NextOffline]_vars

\* the handlers that change a cached qty, the device offline: addSale followed
\* through its awaits, the others clicked before it or while it waits
OverlapForms == {"stockMove", "recordLoss", "addProduct"}

NextOverlap ==
  \/ \E in \in Inputs : SaleBegin(in)
  \/ SaleItems
  \/ \E h \in OverlapForms, in \in Inputs : FormOverlap(h, in)
  \/ \E h \in OverlapForms, in \in Inputs : FormSubmit(h, in)
  \/ WriteEnqueue
  \/ FormReturn

SpecOverlap == InitOffline /\ [][NextOverlap]_vars

\* sales made and deleted while the device stays offline
NextUndo ==
  \/ \E in \in Inputs : FormSubmit("addSale", in)
  \/ \E in \in Inputs : DeleteRecordSubmit(in)
  \/ WriteEnqueue
  \/ FormReturn

SpecUndo == InitOffline /\ [][NextUndo]_vars

\* the expense path with the entity stores: addExpense, the drains, loadAll
NextCache ==
  \/ \E in \in Inputs : FormSubmit("addExpense", in)
  \/ \E o \in Outcomes : FormAnswer(o)
  \/ WriteEnqueue
  \/ FormReturn
  \/ \E lists \in RemoteLists, answered \in BOOLEAN : FormLoad(lists, answered)
  \/ GoOnline
  \/ GoOffline
  \/ SyncClick
  \/ \E d \in Triggers : FlushRead(d)
  \/ \E d \in Triggers, ok \in BOOLEAN : DrainAnswer(d, ok)
  \/ \E d \in Triggers : FlushClear(d)
  \/ \E d \in Triggers, lists \in RemoteLists, answered \in BOOLEAN :
        DrainFinish(d, lists, answered)

SpecCache == InitQueue /\ [][NextCache]_vars

\* =====================================================================
\* Properties of the stock ledger (under Spec)
\* =====================================================================
RECURSIVE SumMoves(_, _, _)
SumMoves(ms, p, ty) ==
  IF ms = <<>> THEN 0
  ELSE (IF Head(ms).product_id = p /\ Head(ms).type = ty THEN Head(ms).qty ELSE 0)
       + SumMoves(Tail(ms), p, ty)

Net(ms, p) == SumMoves(ms, p, "IN") - SumMoves(ms, p, "OUT")

StockNeverNegative == \A p \in DOMAIN products : products[p].qty >= 0

RECURSIVE ItemsQty(_, _)
ItemsQty(items, p) ==
  IF items = <<>> THEN 0
  ELSE (IF Head(items).product_id = p THEN Head(items).qty_used ELSE 0)
       + ItemsQty(Tail(items), p)

\* the step commits one new sale row, one sale_items row, one OUT movement and one
\* decrement for each item of the request of t, and nothing else
SaleCommitted(t) ==
  LET items == tx[t].items
      n == Len(items)
  IN /\ \E s \in (DOMAIN sales') \ (DOMAIN sales) :
          /\ DOMAIN sales' = (DOMAIN sales) \cup {s}
          /\ \A o \in DOMAIN sales : sales'[o] = sales[o]
          /\ Len(sale_items') = Len(sale_items) + n
          /\ SubSeq(sale_items', 1, Len(sale_items)) = sale_items
          /\ \A k \in 1..n :
               sale_items'[Len(sale_items) + k] =
                 [sale_id |-> s, product_id |-> items[k].product_id,
                  qty_used |-> items[k].qty_used]
          /\ Len(movements') = Len(movements) + n
          /\ SubSeq(movements', 1, Len(movements)) = movements
          /\ \A k \in 1..n :
               movements'[Len(movements) + k] =
                 [product_id |-> items[k].product_id, type |-> "OUT",
                  qty |-> items[k].qty_used, sale |-> s]
     /\ DOMAIN products' = DOMAIN products
     /\ \A p \in DOMAIN products : products'[p].qty = products[p].qty - ItemsQty(items, p)

\* every item names a product that exists and asks for no more than its committed qty
ItemsValid(items) ==
  \A k \in 1..Len(items) :
    /\ items[k].product_id \in DOMAIN products
    /\ items[k].qty_used <= products[items[k].product_id].qty

\* C3: a POST /sales with N items commits the sale, N sale_items, N OUT movements and N
\* decrements in one step, and only when every item names an existing product with
\* enough stock; every other step of the request, and its rejection, changes nothing.
SaleAllOrNothing ==
  [][/\ \A t \in Tx :
          /\ (tx[t].kind = "sale_create" /\ tx'[t] # tx[t]) =>
                IF tx'[t].pc = "idle" /\ resp'.status = 200
                  THEN SaleCommitted(t) /\ ItemsValid(tx[t].items)
                  ELSE UNCHANGED db
          /\ (tx[t].kind = "none" /\ tx'[t].kind = "sale_create") => UNCHANGED db
     /\ (nreq' # nreq /\ tx' = tx /\ resp'.kind = "sale_create") =>
          (resp'.status = 400 /\ UNCHANGED db)]_vars

\* a sale with items on two products is committed and a later POST /sales was rejected
\* for insufficient stock
SaleAllOrNothingWitness ==
  /\ resp.kind = "sale_create" /\ resp.error = "Insufficient stock"
  /\ \E j, k \in 1..Len(sale_items) :
       /\ sale_items[j].sale_id = sale_items[k].sale_id
       /\ sale_items[j].product_id # sale_items[k].product_id

\* the place of the first movement of sale s in the ledger (past its end: none)
FirstOf(s) ==
  CHOOSE k \in 1..(Len(movements) + 1) :
    /\ k = Len(movements) + 1 \/ movements[k].sale = s
    /\ \A j \in 1..(k - 1) : movements[j].sale # s

\* what product p held before sale s was committed, by the ledger
PreSaleQty(s, p) == Net(SubSeq(movements, 1, FirstOf(s) - 1), p)

AffectedBy(s) ==
  {sale_items[k].product_id : k \in {j \in 1..Len(sale_items) : sale_items[j].sale_id = s}}

\* since sale s was committed, nothing but s has moved the products it consumed
NothingBetween(s) ==
  \A k \in 1..Len(movements) :
    (k >= FirstOf(s) /\ movements[k].product_id \in AffectedBy(s)) =>
       (movements[k].sale = s /\ movements[k].type = "OUT")

CountMoves(ms, s, p, ty, q) ==
  Cardinality({k \in 1..Len(ms) :
     ms[k] = [product_id |-> p, type |-> ty, qty |-> q, sale |-> s]})

\* C4: deleting a sale, when nothing else has moved its products since it was created,
\* puts every affected product back to its pre-sale qty, adds one IN movement of the
\* same quantity for each OUT movement of the sale, and removes the sale and its items.
ReversalSymmetry ==
  [][\A t \in Tx :
       (/\ tx[t].kind = "sale_delete" /\ tx[t].pc = "d_delete"
        /\ tx'[t].pc = "idle" /\ resp'.status = 200
        /\ tx[t].id \in DOMAIN sales
        /\ NothingBetween(tx[t].id)) =>
          LET s == tx[t].id
          IN /\ \A p \in AffectedBy(s) :
                  p \in DOMAIN products' /\ products'[p].qty = PreSaleQty(s, p)
             /\ \A p \in ProductIds, q \in 1..MaxQty :
                  CountMoves(movements', s, p, "IN", q) = CountMoves(movements, s, p, "OUT", q)
             /\ s \notin DOMAIN sales'
             /\ \A k \in 1..Len(sale_items') : sale_items'[k].sale_id # s]_vars

\* a sale was created and deleted: its OUT movement has its one IN movement, and no
\* sale or sale item is left
ReversalSymmetryWitness ==
  /\ resp.kind = "sale_delete" /\ resp.status = 200
  /\ sales = EmptyFn /\ sale_items = <<>>
  /\ \E s \in SaleIds, p \in DOMAIN products, q \in 1..MaxQty :
       /\ CountMoves(movements, s, p, "OUT", q) = 1
       /\ CountMoves(movements, s, p, "IN", q) = 1
       /\ products[p].qty = MaxQty

\* C7: a move that commits changes the qty committed at that moment by exactly its
\* quantity (no update of another request is lost), and an accepted OUT leaves qty >= 0:
\* two OUT moves that together exceed the stock are never both accepted.
MoveIsolation ==
  [][\A t \in Tx :
       (tx[t].kind = "move" /\ tx'[t].pc = "idle" /\ resp'.status = 200) =>
          LET id == tx[t].id
          IN /\ id \in DOMAIN products /\ id \in DOMAIN products'
             /\ IF tx[t].type = "IN"
                  THEN products'[id].qty = products[id].qty + tx[t].qty
                  ELSE /\ products'[id].qty = products[id].qty - tx[t].qty
                       /\ products'[id].qty >= 0
             /\ Len(movements') = Len(movements) + 1]_vars

\* a move has committed on a product that two moves, one OUT and one IN, have changed,
\* while another request is in flight
MoveIsolationWitness ==
  /\ resp.kind = "move" /\ resp.status = 200
  /\ \E u \in Tx : tx[u].kind # "none"
  /\ \E p \in DOMAIN products :
       /\ SumMoves(movements, p, "OUT") >= 1
       /\ SumMoves(movements, p, "IN") >= MaxQty + 1

\* the step takes in a POST /products/:id/move: answered at once, or begun
MoveArrives ==
  /\ nreq' # nreq
  /\ \/ tx' = tx /\ resp'.kind = "move"
     \/ \E t \in Tx : tx[t].kind = "none" /\ tx'[t].kind = "move"

\* C8: a move on a product that does not exist is answered "Product not found", an OUT
\* larger than the committed qty is answered "Insufficient stock"; either way the
\* request ends there with no movement row and no change of qty or updated_at.
MoveRejections ==
  [][MoveArrives =>
       \A t \in Tx, id \in ProductIds, type \in MoveTypes, qty \in 1..MaxQty :
         MoveSelect(t, id, type, qty) =>
           /\ (id \notin DOMAIN products) =>
                 /\ resp' = [kind |-> "move", status |-> 404, error |-> "Product not found"]
                 /\ tx'[t].pc = "idle"
                 /\ UNCHANGED db
           /\ (id \in DOMAIN products /\ type = "OUT" /\ qty > products[id].qty) =>
                 /\ resp' = [kind |-> "move", status |-> 400, error |-> "Insufficient stock"]
                 /\ tx'[t].pc = "idle"
                 /\ UNCHANGED db]_vars

\* an OUT move was just rejected for a product that holds nothing
MoveRejectionsWitness ==
  /\ resp = [kind |-> "move", status |-> 400, error |-> "Insufficient stock"]
  /\ \E p \in DOMAIN products : products[p].qty = 0
  /\ \A t \in Tx : tx[t].pc = "idle"

\* C9: the stock a sale consumed is never restored more than once: for every sale and
\* product, the IN movements written by DELETE /sales/:id never exceed the OUT
\* movements written by POST /sales, also when two deletes of the sale run together.
RestoredAtMostOnce ==
  \A s \in SaleIds, p \in ProductIds :
    SumMoves(SelectSeq(movements, LAMBDA m : m.sale = s), p, "IN")
      <= SumMoves(SelectSeq(movements, LAMBDA m : m.sale = s), p, "OUT")

\* =====================================================================
\* Properties of the pending-action queue (under SpecQueue)
\* =====================================================================
\* what one flushQueue call has done so far
FlushInv(d) ==
  LET r == drain[d]
  IN r.pc \in {"wait", "clear", "finish"} =>
       /\ \A j, k \in 1..Len(r.items) : j < k => r.items[j].qid < r.items[k].qid
       /\ r.sent = SubSeq(r.items, 1, r.i)
       /\ \A j \in 1..(r.i - 1) : r.items[j].qid \notin DOMAIN queue
       /\ (r.pc = "finish" /\ ~r.failed) =>
            /\ r.i = Len(r.items)
            /\ \A j \in 1..Len(r.items) : r.items[j].qid \notin DOMAIN queue
       /\ (r.failed /\ d \notin disturbed) =>
            \A j \in r.i..Len(r.items) :
              /\ r.items[j].qid \in DOMAIN queue
              /\ queue[r.items[j].qid] = r.items[j]

NoEnqueueAfterRejection ==
  [][(writer.res = "http" /\ writer' # writer) => (DOMAIN queue') \subseteq (DOMAIN queue)]_vars

\* C10: a write that finds navigator.onLine false starts no fetch, then adds exactly one
\* entry, with the kind, path, method and body of its action, and, still offline,
\* returns without loadAll.
OfflineWrite ==
  [][/\ \A h \in Handlers :
          (WriteStart(h, ActionOf(h, FirstRow)) /\ ~online) =>
             (wire' = wire /\ queue' = queue /\ writer'.pc = "enqueue" /\ writer'.h = h)
     /\ (writer.res = "offline" /\ writer' # writer) =>
          /\ wire' = wire
          /\ IF writer.pc = "enqueue"
               THEN /\ \E k \in (DOMAIN queue') \ (DOMAIN queue) :
                         /\ DOMAIN queue' = (DOMAIN queue) \cup {k}
                         /\ queue'[k].kind = writer.a.kind
                         /\ queue'[k].path = writer.a.path
                         /\ queue'[k].method = writer.a.method
                         /\ queue'[k].body = writer.a.body
                    /\ \A j \in DOMAIN queue : queue'[j] = queue[j]
                    /\ writer'.pc = "return"
               ELSE /\ queue' = queue
                    /\ (writer.pc = "return" /\ ~online) => writer'.pc = "idle"]_vars

\* offline, a write has queued its one entry and is about to return; nothing was fetched
OfflineWriteWitness ==
  /\ ~online
  /\ writer.pc = "return" /\ writer.res = "offline" /\ writer.h = "addExpense"
  /\ wire = {}
  /\ DOMAIN queue = {1}
  /\ queue[1].kind = "expense_create" /\ queue[1].method = "POST"

\* ---------------------------------------------------------------------
\* C19.  DELETE /sales/:id for a sale that does not exist is rejected (400 "Sale not
\* found", the transaction rolled back) and changes no product, stock movement, sale
\* or sale item.
\* ---------------------------------------------------------------------
SaleDeleteArrives ==
  /\ nreq' # nreq
  /\ \/ \E t \in Tx : tx[t].kind = "none" /\ tx'[t].kind = "sale_delete"
     \/ tx' = tx /\ resp'.kind = "sale_delete"

DeleteMissingSale ==
  [][SaleDeleteArrives =>
       \A t \in Tx, id \in SaleIds :
         (SaleDeleteSelect(t, id) /\ id \notin DOMAIN sales) =>
            /\ resp' = [kind |-> "sale_delete", status |-> 400, error |-> "Sale not found"]
            /\ tx' = tx
            /\ UNCHANGED <<products, movements, sales, sale_items>>]_vars

\* the rejection has happened on a database that holds a product, its movement and
\* another sale with its items
DeleteMissingSaleWitness ==
  /\ resp = [kind |-> "sale_delete", status |-> 400, error |-> "Sale not found"]
  /\ DOMAIN sales # {} /\ DOMAIN sales # SaleIds
  /\ sale_items # <<>>
  /\ DOMAIN products # {}

\* ---------------------------------------------------------------------
\* C20.  PUT /sales/:id changes only the amount and description of that sale: the
\* sale's items, every other sale, every product and every stock movement are as
\* before.
\* ---------------------------------------------------------------------
SaleUpdateFrame ==
  [][(nreq' # nreq /\ resp'.kind = "sale_update") =>
       \A t \in Tx, id \in SaleIds, amount \in {0, 6000}, description \in {"", "Dinner"} :
         SaleUpdate(t, id, amount, description) =>
            /\ UNCHANGED <<products, movements, sale_items>>
            /\ DOMAIN sales' = DOMAIN sales
            /\ \A s \in DOMAIN sales \ {id} : sales'[s] = sales[s]
            /\ resp'.status = 200 =>
                  sales'[id] = [amount |-> amount, description |-> description]]_vars

\* one of two sales has been updated, the other still has what it was created with,
\* and the updated sale has items
SaleUpdateFrameWitness ==
  /\ resp = [kind |-> "sale_update", status |-> 200, error |-> ""]
  /\ \E a, b \in DOMAIN sales :
       /\ sales[a] = [amount |-> 6000, description |-> "Dinner"]
       /\ sales[b] = [amount |-> 5000, description |-> "Lunch combo"]
       /\ ItemsOfSale(a) # <<>>

\* ---------------------------------------------------------------------
\* C18.  Concurrent POST /sales requests on overlapping products take their product
\* row locks in one consistent order: no state is reached in which two such requests
\* each wait for a row lock the other holds.
\* ---------------------------------------------------------------------
NoSaleLockCycle ==
  \A t, u \in Tx :
    (tx[t].kind = "sale_create" /\ tx[u].kind = "sale_create") =>
       ~(Waits(t, u) /\ Waits(u, t))

\* ---------------------------------------------------------------------
\* C17.  With POST /sales and POST /products/:id/move running concurrently on the
\* same products, a sale holds the row lock of every product it references when it
\* changes any row, and no committed state has a product qty below 0.
\* ---------------------------------------------------------------------
SaleIsolation ==
  /\ [](\A p \in DOMAIN products : products[p].qty >= 0)
  /\ [][\A t \in Tx :
          SaleWrite(t) =>
            \A k \in 1..Len(tx[t].items) : tx[t].lk[tx[t].items[k].product_id] = "FU"]_vars

\* ---------------------------------------------------------------------
\* C11.  When the fetch of a client write fails (the request does not reach the
\* server), the action is enqueued and the handler returns without showing a failure
\* and without reloading over its optimistic change, whether navigator.onLine is true
\* or false at that moment.
\* ---------------------------------------------------------------------
NetworkFailureIsQueuedQuietly ==
  [][/\ (writer.pc = "fetch" /\ writer'.res = "network") => writer'.pc = "enqueue"
     /\ (writer.res = "network" /\ writer.pc = "enqueue" /\ writer' # writer) =>
           /\ nextQid \in DOMAIN queue'
           /\ queue'[nextQid].kind = writer.a.kind
           /\ writer'.pc = "return"
     /\ (writer.res = "network" /\ writer.pc = "return" /\ writer' # writer) =>
           writer' = IdleWriter]_vars

\* ---------------------------------------------------------------------
\* C12.  When the fetch of a client write succeeds, apiOrQueue returns without
\* queueAdd: from the 2xx answer to the handler's return no step of the write
\* changes the queue or takes a queue key, and the handler ends without a reload.
\* ---------------------------------------------------------------------
SuccessLeavesQueue ==
  [][/\ (writer.pc = "fetch" /\ writer'.res = "ok") =>
           /\ writer'.pc = "return"
           /\ queue' = queue /\ nextQid' = nextQid
     /\ (writer.res = "ok" /\ writer' # writer) =>
           /\ writer.pc = "return" /\ writer' = IdleWriter
           /\ queue' = queue /\ nextQid' = nextQid]_vars

\* a write has been answered 2xx while an earlier action waits in the queue
SuccessLeavesQueueWitness ==
  /\ writer.pc = "return" /\ writer.res = "ok"
  /\ DOMAIN queue # {}
  /\ online

\* ---------------------------------------------------------------------
\* C15.  At any moment at most one replay request of flushQueue is in flight,
\* whichever callers (the "online" listener, the click on #syncBtn) started a drain.
\* ---------------------------------------------------------------------
OneReplayInFlight == Cardinality({r \in wire : r.from \in Triggers}) <= 1

\* ---------------------------------------------------------------------
\* C13.  A client write with invalid input (empty description or name, amount <= 0,
\* quantity <= 0, a stock-decreasing quantity above the cached stock) is rejected
\* before any effect, in addSale, addExpense, editRecord, addProduct, editProduct,
\* stockMove and recordLoss: the in-memory lists, the stores, the requests in flight
\* and the queue are as before.
\* ---------------------------------------------------------------------
\* the invalid inputs as the sentence lists them, for the fields each handler reads
\* (the initial quantity of addProduct may be 0)
InvalidInput(h, in) ==
  \/ h \in {"addSale", "addExpense", "editRecord", "addProduct", "editProduct"} /\ in.text = ""
  \/ h \in {"addSale", "addExpense", "editRecord"} /\ in.amount <= 0
  \/ h \in {"stockMove", "recordLoss"} /\ in.qty <= 0
  \/ h = "addProduct" /\ in.qty < 0
  \/ /\ h \in {"addSale", "recordLoss"} \/ (h = "stockMove" /\ in.type = "OUT")
     /\ in.id \in DOMAIN view.products
     /\ in.qty > view.products[in.id].qty

InvalidInputRejected ==
  [][\A h \in Forms, in \in Inputs :
       (FormSubmit(h, in) /\ InvalidInput(h, in)) =>
          UNCHANGED <<view, cache, wire, queue, nextQid, writer>>]_vars

\* ---------------------------------------------------------------------
\* C14.  After a drain attempt followed by a successful reload from the server, each
\* entity store (products, sales, expenses) holds exactly the server's records: no
\* record under a temporary id and no record the server does not have remains.
\* ---------------------------------------------------------------------
ReloadMirrorsServer ==
  [][(drain' # drain) =>
       \A d \in Triggers, lists \in RemoteLists :
         (online /\ DrainFinish(d, lists, TRUE)) => cache' = lists]_vars

\* ---------------------------------------------------------------------
\* C16.  An expense added while offline is put into the expenses store and into the
\* queue; once the device is online its POST is sent once and the entry removed, so
\* the server holds one expense for it: never more rows than expenses added here.
\* ---------------------------------------------------------------------
OfflineExpenseOnce ==
  /\ [](posted <= Cardinality({k \in 1..Len(made) : made[k] = "addExpense"}))
  /\ [][(/\ writer.h = "addExpense" /\ writer.res = "offline"
         /\ writer.pc = "enqueue" /\ writer' # writer) =>
           /\ nextQid \in DOMAIN queue'
           /\ queue'[nextQid].kind = "expense_create"
           /\ (0 - Len(made)) \in DOMAIN cache'.expenses]_vars

\* ---------------------------------------------------------------------
\* C21.  A product's qty changes only through the stock ledger (move, sale creation,
\* sale deletion; the initial stock comes with the product's creation): PUT
\* /products/:id leaves every qty and the movement ledger unchanged whatever its body.
\* ---------------------------------------------------------------------
QtyOnlyByLedger ==
  [][/\ \A p \in (DOMAIN products) \cap (DOMAIN products') :
          products'[p].qty # products[p].qty =>
             \E t \in Tx : /\ tx[t].kind \in {"move", "sale_create", "sale_delete"}
                           /\ tx'[t] = IdleTx
                           /\ resp'.status = 200
     /\ (nreq' # nreq /\ resp'.kind = "product_update") =>
          \A t \in Tx, id \in ProductIds, name \in Names \cup {""}, q \in {0, MaxQty} :
            ProductUpdate(t, id, name, q) =>
               /\ DOMAIN products' = DOMAIN products
               /\ \A p \in DOMAIN products : products'[p].qty = products[p].qty
               /\ movements' = movements]_vars

\* a product in stock, with its movement, has been updated by PUT /products/:id
QtyOnlyByLedgerWitness ==
  /\ resp = [kind |-> "product_update", status |-> 200, error |-> ""]
  /\ \E p \in DOMAIN products : /\ products[p].updated_at > 0
                                /\ products[p].qty > 0
                                /\ SumMoves(movements, p, "IN") > 0

\* ---------------------------------------------------------------------
\* C22.  POST /products with initial_qty q > 0 commits the product with qty q and
\* exactly one IN movement of q in one step; with initial_qty 0 (or absent) the
\* product with qty 0 and no movement; a negative initial_qty is rejected and
\* nothing changes.
\* ---------------------------------------------------------------------
ProductCreateUnit ==
  [][(nreq' # nreq /\ resp'.kind = "product_create") =>
       \A t \in Tx, name \in Names \cup {""}, q \in (0 - 1)..MaxQty :
         ProductCreate(t, name, q) =>
            /\ q < 0 => (resp'.status = 400 /\ UNCHANGED db)
            /\ (name # "" /\ q >= 0) =>
                 LET p == seqProduct + 1
                 IN /\ resp'.status = 200
                    /\ p \notin DOMAIN products
                    /\ DOMAIN products' = (DOMAIN products) \cup {p}
                    /\ products'[p].qty = q
                    /\ \A o \in DOMAIN products : products'[o] = products[o]
                    /\ movements' = IF q > 0
                                      THEN Append(movements, Movement(p, "IN", q, 0))
                                      ELSE movements
                    /\ UNCHANGED <<sales, sale_items>>]_vars

\* the product created last came with stock and has its one IN movement
ProductCreateUnitWitness ==
  /\ resp = [kind |-> "product_create", status |-> 200, error |-> ""]
  /\ seqProduct \in DOMAIN products
  /\ products[seqProduct].updated_at > 0
  /\ products[seqProduct].qty > 0
  /\ Cardinality({k \in 1..Len(movements) : movements[k].product_id = seqProduct}) = 1

\* ---------------------------------------------------------------------
\* C24.  A stock movement is never updated and is deleted only with its product:
\* while a product exists its movements only grow, by one row per accepted move, per
\* item of a created sale, per item of a deleted sale; a new product starts with one
\* row iff its initial quantity is positive.
\* ---------------------------------------------------------------------
MovesOf(ms, p) == SelectSeq(ms, LAMBDA m : m.product_id = p)

\* the rows the request that commits in this step adds for product p
Growth(p) ==
  IF \E t \in Tx : tx[t].kind # "none" /\ tx'[t] = IdleTx /\ resp'.status = 200
    THEN LET t == CHOOSE u \in Tx :
                    tx[u].kind # "none" /\ tx'[u] = IdleTx /\ resp'.status = 200
         IN CASE tx[t].kind = "move" -> IF tx[t].id = p THEN 1 ELSE 0
              [] tx[t].kind = "sale_create" ->
                   Cardinality({k \in 1..Len(tx[t].items) : tx[t].items[k].product_id = p})
              [] tx[t].kind = "sale_delete" ->
                   Cardinality({k \in 1..Len(tx[t].rows) : tx[t].rows[k].product_id = p})
              [] OTHER -> 0
    ELSE 0

LedgerAppendOnly ==
  [][/\ \A p \in (DOMAIN products) \cap (DOMAIN products') :
          /\ Len(MovesOf(movements', p)) = Len(MovesOf(movements, p)) + Growth(p)
          /\ SubSeq(MovesOf(movements', p), 1, Len(MovesOf(movements, p))) =
                MovesOf(movements, p)
     /\ \A p \in (DOMAIN products') \ (DOMAIN products) :
          Len(MovesOf(movements', p)) = IF products'[p].qty > 0 THEN 1 ELSE 0]_vars

\* a product has its initial IN, the OUT of a sale and the IN of that sale's deletion
LedgerAppendOnlyWitness ==
  \E p \in DOMAIN products :
    /\ Len(MovesOf(movements, p)) >= 3
    /\ \E k \in 1..Len(movements) :
         movements[k].product_id = p /\ movements[k].type = "IN" /\ movements[k].sale # 0

\* ---------------------------------------------------------------------
\* C23.  When the backend rejects a write, the handler alerts and reloads from the
\* server, and after that reload neither the in-memory lists nor the IndexedDB stores
\* hold the optimistic change of the rejected write; for a rejected create: the
\* record with the temporary id is in no list and in no store.
\* ---------------------------------------------------------------------
Creates == {"addSale", "addExpense", "addProduct"}

StoreNames == {"products", "sales", "expenses"}

RejectedWriteUndone ==
  [][(writer.pc = "load" /\ writer.res = "http" /\ online /\ writer.h \in Creates) =>
       \A lists \in RemoteLists :
         FormLoad(lists, TRUE) =>
            /\ shown = FailureAlert(writer.h)
            /\ \A st \in StoreNames :
                 /\ (0 - Len(made)) \notin DOMAIN view'[st]
                 /\ (0 - Len(made)) \notin DOMAIN cache'[st]]_vars

\* ---------------------------------------------------------------------
\* C25.  flushQueue called while the device is offline sends no request, starts no
\* replay, and leaves the pending queue, the IndexedDB stores and the in-memory lists
\* unchanged.
\* ---------------------------------------------------------------------
OfflineFlushIsNoop ==
  [][(~online /\ shown' # shown) =>
       (SyncClickOffline =>
          /\ wire' = wire
          /\ drain' = drain
          /\ queue' = queue
          /\ cache' = cache
          /\ view' = view)]_vars

\* the click came offline with an action pending, and nothing was sent or removed
OfflineFlushIsNoopWitness ==
  /\ ~online
  /\ shown = "Sync complete (or nothing to sync)."
  /\ DOMAIN queue # {}
  /\ drain["syncBtn"].pc = "idle"
  /\ wire = {}

\* ---------------------------------------------------------------------
\* C26.  A put into an entity store overwrites by id: after put(r1) and put(r2) under
\* one id, getAll returns one record per id and the record of that id is r2, the
\* other records are untouched; putting the same record twice is as putting it once.
\* ---------------------------------------------------------------------
Records(st) ==
  IF st = "products"
    THEN {[name |-> "Ice", qty |-> 0], [name |-> "Fuel", qty |-> MaxQty]}
    ELSE {[amount |-> 1500, description |-> "Fuel"], [amount |-> 5000, description |-> "Lunch combo"]}

PutOverwrites ==
  \A st \in StoreNames, k \in Keys :
    \A r1 \in Records(st), r2 \in Records(st) :
      LET s0 == cache[st]
          s1 == idbPut(s0, k, r1)
          s2 == idbPut(s1, k, r2)
      IN /\ DOMAIN s2 = (DOMAIN s0) \cup {k}
         /\ Len(idbGetAll(s2)) = Cardinality((DOMAIN s0) \cup {k})
         /\ s2[k] = r2
         /\ \A j \in (DOMAIN s0) \ {k} : s2[j] = s0[j]
         /\ idbPut(s1, k, r1) = s1

\* two stock moves have put the one product twice: the products store holds one
\* record under its id, with the quantity of the second put
PutOverwritesWitness ==
  /\ Len(made) = 2
  /\ made[1] = "stockMove"
  /\ made[2] = "stockMove"
  /\ DOMAIN cache.products = {1}
  /\ cache.products[1].qty # Seed.products[1].qty

\* ---------------------------------------------------------------------
\* C27.  While the replay of the oldest queued entry fails, that entry and every later
\* one stay queued in their order, and no drain sends a later entry: a drain has sent
\* nothing later than the oldest queued entry, a failed replay ends the drain's
\* sending and removes nothing, and an entry leaves the queue only as the oldest one,
\* removed by the drain whose replay of it succeeded.
\* ---------------------------------------------------------------------
Running(d) == drain[d].pc \in {"wait", "clear", "finish"}

HeadOfLineBlocking ==
  /\ [](\A d \in Triggers :
          Running(d) =>
            \A j \in 1..Len(drain[d].sent), k \in DOMAIN queue : drain[d].sent[j].qid <= k)
  /\ [][/\ \A d \in Triggers :
             (drain[d].pc = "wait" /\ drain'[d].failed) =>
                /\ drain'[d].pc = "finish"
                /\ drain'[d].sent = drain[d].sent
                /\ queue' = queue
                /\ wire' \subseteq wire
        /\ \A d \in Triggers :
             (drain[d].pc = "finish" /\ drain[d].failed /\ drain'[d] # drain[d]) =>
                /\ drain'[d] = IdleDrain
                /\ queue' = queue
                /\ wire' = wire
        /\ \A k \in (DOMAIN queue) \ (DOMAIN queue') :
             /\ \A j \in DOMAIN queue : k <= j
             /\ \E d \in Triggers : /\ drain[d].pc = "clear"
                                      /\ ~drain[d].failed
                                      /\ drain[d].items[drain[d].i].qid = k
        /\ \A k \in (DOMAIN queue) \cap (DOMAIN queue') : queue'[k] = queue[k]]_vars

\* a drain of three entries has failed on the oldest, and a second drain has failed on
\* it again: the three are queued and each drain sent the oldest only
HeadOfLineBlockingWitness ==
  /\ DOMAIN queue = {1, 2, 3}
  /\ \A d \in Triggers :
       /\ drain[d].pc = "finish" /\ drain[d].failed
       /\ Len(drain[d].items) = 3
       /\ Len(drain[d].sent) = 1 /\ drain[d].sent[1].qid = 1

\* ---------------------------------------------------------------------
\* C28.  The backend applies a client's actions in the order the user issued them: a
\* write is not applied while an action issued before it is still pending, that is,
\* when a handler's own request is answered 2xx, every entry still in the queue has
\* had its replay answered 2xx.
\* ---------------------------------------------------------------------
WritesApplyInIssueOrder ==
  [][(writer.pc = "fetch" /\ writer'.res = "ok") =>
       \A k \in DOMAIN queue :
         \E d \in Triggers : /\ drain[d].pc = "clear"
                              /\ drain[d].items[drain[d].i].qid = k]_vars

\* ---------------------------------------------------------------------
\* C30.  After a create (sale, expense, product) whose request the backend answered
\* 2xx, the record in the in-memory list and in the IndexedDB store carries the id the
\* server assigned: when the handler returns, no list and no store holds the record
\* under the temporary id.
\* ---------------------------------------------------------------------
CreateAdoptsServerId ==
  [][(writer.pc = "return" /\ writer.res = "ok" /\ writer.h \in Creates /\ writer' = IdleWriter) =>
       \A st \in StoreNames :
         /\ (0 - Len(made)) \notin DOMAIN view'[st]
         /\ (0 - Len(made)) \notin DOMAIN cache'[st]]_vars

\* ---------------------------------------------------------------------
\* C29.  A product created offline and a stock move on it queued offline are both
\* replayed successfully by a later drain that reaches the backend: when the loop of
\* that drain has ended the queue is empty and the qty of the server's new product is
\* the qty the page shows for it, the move included.
\* ---------------------------------------------------------------------
DrainReplaysCreateThenMove ==
  \A k \in Keys :
    LET r == drain["online"]
    IN (/\ k < 0
        /\ r.pc = "finish"
        /\ Len(r.items) = 2
        /\ r.items[1].kind = "product_create"
        /\ r.items[2].path = MovePath(k)) =>
          /\ ~r.failed
          /\ DOMAIN queue = {}
          /\ products[seqProduct].qty = cache.products[k].qty

\* ---------------------------------------------------------------------
\* C35.  Every sale_items row and every stock_movements row references an existing
\* product.  DELETE /products/:id of a product that a sale item references fails and
\* leaves products, movements, sales and sale items unchanged; of an unreferenced
\* product, it removes the product and all its movements and nothing else.
\* ---------------------------------------------------------------------
ProductDeleteAnswers(t) ==
  /\ tx[t].pc = "pd_delete"
  /\ tx'[t] = IdleTx
  /\ tx[t].id \in DOMAIN products

ReferencesHold ==
  /\ [](/\ \A k \in 1..Len(sale_items) : sale_items[k].product_id \in DOMAIN products
        /\ \A k \in 1..Len(movements) : movements[k].product_id \in DOMAIN products)
  /\ [][\A t \in Tx :
          ProductDeleteAnswers(t) =>
            IF \E k \in 1..Len(sale_items) : sale_items[k].product_id = tx[t].id
              THEN /\ resp'.status = 500
                   /\ UNCHANGED <<products, movements, sales, sale_items>>
              ELSE /\ resp'.status = 200
                   /\ DOMAIN products' = (DOMAIN products) \ {tx[t].id}
                   /\ \A p \in DOMAIN products' : products'[p] = products[p]
                   /\ movements' = SelectSeq(movements, LAMBDA m : m.product_id # tx[t].id)
                   /\ UNCHANGED <<sales, sale_items>>]_vars

\* the delete of a product that a sale item references was answered 500, and the
\* product, its movements and the sale are there
ReferencesHoldWitness ==
  /\ resp.kind = "product_delete" /\ resp.status = 500
  /\ \E k \in 1..Len(sale_items) :
       /\ sale_items[k].product_id \in DOMAIN products
       /\ sale_items[k].sale_id \in DOMAIN sales
       /\ MovesOf(movements, sale_items[k].product_id) # <<>>

\* ---------------------------------------------------------------------
\* C36.  A queue entry is removed only after the backend answered the replay of that
\* same entry with success, by the drain that replayed it; nothing else removes,
\* changes or reorders entries: an entry that stays is unchanged and a new entry gets
\* a key above every key there.
\* ---------------------------------------------------------------------
RemovedOnlyAfterSuccess ==
  [][/\ \A k \in (DOMAIN queue) \ (DOMAIN queue') :
          \E d \in Triggers :
            /\ drain[d].pc = "clear"
            /\ ~drain[d].failed
            /\ drain[d].sent[Len(drain[d].sent)] = queue[k]
            /\ drain'[d] # drain[d]
     /\ \A d \in Triggers :
          (drain'[d].pc = "clear" /\ drain[d].pc # "clear") =>
             /\ drain[d].pc = "wait"
             /\ ~drain'[d].failed
             /\ Request(d, drain[d].items[drain[d].i]) \in wire \ wire'
     /\ \A k \in (DOMAIN queue) \cap (DOMAIN queue') : queue'[k] = queue[k]
     /\ \A k \in (DOMAIN queue') \ (DOMAIN queue) :
          /\ k = nextQid
          /\ \A j \in DOMAIN queue : j < k]_vars

\* a drain over two entries had its replay of the first answered with success and has
\* removed it; the second is queued and being replayed
RemovedOnlyAfterSuccessWitness ==
  \E d \in Triggers :
    /\ drain[d].pc = "wait"
    /\ Len(drain[d].items) = 2
    /\ drain[d].i = 2
    /\ DOMAIN queue = {drain[d].items[2].qid}

\* ---------------------------------------------------------------------
\* C37.  In the move route of routes/inventory.js, whatever the interleaving of two
\* requests on one product, once they are answered the product's qty is its initial
\* qty plus the accepted INs minus the accepted OUTs, and the qty is never negative.
\* ---------------------------------------------------------------------
InventoryMoveConserves ==
  /\ \A p \in DOMAIN products : products[p].qty >= 0
  /\ (\A t \in Tx : Free(t)) =>
       \A p \in DOMAIN products : products[p].qty = Net(movements, p)

\* ---------------------------------------------------------------------
\* C38.  On the client, deleting a sale restores the cached qty of every product the
\* sale used: after addSale and then deleteRecord of that sale, each cached product
\* qty is what it was before the sale.
\* ---------------------------------------------------------------------
SaleDeleteRestoresCache ==
  (/\ made = <<"addSale", "deleteRecord">>
   /\ (0 - 1) \notin DOMAIN cache.sales) =>
     \A p \in DOMAIN Seed.products :
       /\ cache.products[p].qty = Seed.products[p].qty
       /\ view.products[p].qty = Seed.products[p].qty

\* ---------------------------------------------------------------------
\* C33.  An action whose failure was reported to the user is never applied to the
\* backend afterwards by a queue drain: once the only expense submitted has ended in
\* the failure alert, no expense row is inserted.
\* ---------------------------------------------------------------------
AlertedWriteNeverApplied ==
  [][(/\ made = <<"addExpense">>
      /\ writer.pc \in {"load", "idle"}
      /\ shown = FailureAlert("addExpense")) => posted' = posted]_vars

\* ---------------------------------------------------------------------
\* C39.  A loss of quantity q recorded on the client is applied by the backend as a
\* decrease of q of the product's qty once the device is online and the queue is
\* drained, and its queue entry is then removed: when the drain that replayed the
\* only action made, a loss, is through its loop, the product's qty in the database
\* is the cached one and the queue is empty.
\* ---------------------------------------------------------------------
LossAppliedByDrain ==
  (/\ made = <<"recordLoss">>
   /\ drain["online"].pc = "finish") =>
     /\ \A p \in DOMAIN cache.products : products[p].qty = cache.products[p].qty
     /\ queue = EmptyFn

\* ---------------------------------------------------------------------
\* C34.  After any sequence of addSale with products used, stockMove, recordLoss and
\* addProduct on a cache whose quantities are non-negative, every cached product
\* qty, in the list and in the store, is non-negative, also when the operations on
\* a product overlap across their awaits.
\* ---------------------------------------------------------------------
CachedQtyNonNegative ==
  /\ \A p \in DOMAIN cache.products : cache.products[p].qty >= 0
  /\ \A p \in DOMAIN view.products : view.products[p].qty >= 0

\* ---------------------------------------------------------------------
\* C32.  GET /report answers with totalSales the sum of the amounts of the sales
\* created at or after the period start, totalExpenses the same sum over the
\* expenses, and profit = totalSales - totalExpenses, and neither of its steps
\* changes a table or a sequence.
\* ---------------------------------------------------------------------
RECURSIVE AmountSince(_, _, _)
AmountSince(table, ids, from) ==
  IF ids = {} THEN 0
  ELSE LET k == CHOOSE x \in ids : TRUE
       IN (IF table[k].created_at >= from THEN table[k].amount ELSE 0)
          + AmountSince(table, ids \ {k}, from)

ReportSumsThePeriod ==
  [][\A t \in Tx :
       /\ (tx[t].pc = "idle" /\ tx'[t].kind = "report") =>
            /\ UNCHANGED <<db, seqProduct, seqSale>>
            /\ tx'[t].cur <= Instant(nreq')
       /\ (tx[t].pc = "r_expenses" /\ tx'[t].pc = "idle") =>
            /\ resp'.status = 200
            /\ resp'.from = tx[t].cur
            /\ resp'.totals.totalSales = AmountSince(sales, DOMAIN sales, resp'.from)
            /\ resp'.totals.totalExpenses = AmountSince(expenses, DOMAIN expenses, resp'.from)
            /\ resp'.totals.profit = resp'.totals.totalSales - resp'.totals.totalExpenses
            /\ UNCHANGED <<db, seqProduct, seqSale>>]_vars

\* a weekly report asked first, an expense of 1500 created between its two SELECTs:
\* the sales of exactly a week ago and later are summed, the older ones are not, and
\* the new expense is counted
ReportSumsThePeriodWitness ==
  /\ resp.kind = "report"
  /\ resp.period = "weekly"
  /\ resp.from = Instant(1) - 7 * 24
  /\ resp.totals.totalSales = 16000 + 32000 + 64000
  /\ resp.totals.totalExpenses = 400 + 800 + 1500
  /\ resp.totals.profit = 112000 - 2700

\* ---------------------------------------------------------------------
\* C31.  Valid writes on server-confirmed ids made offline and then drained leave
\* the server as the same writes made online in that order do, each replay sending
\* the stored method, path and body: when the drain is through its loop, every
\* product's qty in the database is what the routes give when they take the drained
\* actions one after the other, and a request of a drain is the stored entry's.
\* ---------------------------------------------------------------------
\* the products after the backend has answered one action sent online
AnsweredOnline(rows, a) ==
  IF /\ a.kind = "stock_move"
     /\ \E k \in DOMAIN rows, type \in MoveTypes, qty \in 1..(MaxQty + 1) :
          /\ a.path = MovePath(k)
          /\ a.body = MoveBody(type, qty)
          /\ MoveNewQty(rows[k].qty, type, qty) >= 0
    THEN LET m == CHOOSE m \in [k : DOMAIN rows, type : MoveTypes, qty : 1..(MaxQty + 1)] :
                    /\ a.path = MovePath(m.k)
                    /\ a.body = MoveBody(m.type, m.qty)
         IN [rows EXCEPT ![m.k].qty = MoveNewQty(@, m.type, m.qty)]
    ELSE rows

RECURSIVE SentOnline(_, _)
SentOnline(rows, actions) ==
  IF actions = <<>> THEN rows
  ELSE SentOnline(AnsweredOnline(rows, Head(actions)), Tail(actions))

DrainEqualsOnline ==
  /\ \A d \in Triggers :
       drain[d].pc = "wait" =>
         LET item == drain[d].items[drain[d].i]
         IN /\ Request(d, item) \in wire
            /\ item.qid \in DOMAIN queue => queue[item.qid] = item
  /\ (drain["online"].pc = "finish" /\ writer.pc = "idle") =>
       \A p \in DOMAIN products :
         products[p].qty =
           SentOnline(InitialProducts(1), drain["online"].items)[p].qty

====
